---- MODULE Spec2Model ----
(***************************************************************************)
(* Verification model of cosmwasm/wasmd:                                   *)
(*   - x/wasm/internal/keeper/ibc.go   port derivation and port binding    *)
(*   - x/wasm/relay_pingpong_test.go   the ping/pong player contract       *)
(*   - x/wasm/keeper/gas_register.go   gas conversion and event pricing    *)
(*   - the sub-message dispatch pipeline of the keeper                     *)
(* Unsigned 64-bit values are sequences of 64 bits, least significant bit  *)
(* first, so that shifts, masks and wrap-around are those of uint64.       *)
(* Strings are sequences of ASCII codes, byte slices sequences of 0..255.  *)
(***************************************************************************)
EXTENDS Integers, Sequences, FiniteSets, TLC

VARIABLES
    \* ---- port codec (PortIDForContract / ContractFromPortID) ----
    codeID,        \* uint64 input of PortIDForContract
    instanceID,    \* uint64 input of PortIDForContract
    portID,        \* string returned by PortIDForContract, NoString before the call
    resolved,      \* result of ContractFromPortID(portID), NoResult before the call
    \* ---- port binder (Keeper.ensureIbcPort / Keeper.bindIbcPort) ----
    portKeeperNil, \* k.portKeeper == nil
    boundPorts,    \* port keeper: the port paths a capability was created for
    heldCaps,      \* k.scopedKeeper: the port paths whose capability the keeper holds
    ensured,       \* (codeID, instanceID) -> port id of a successful ensureIbcPort
    ensureBinds,   \* port id -> times ensureIbcPort reached BindPort for it
    bindOk,        \* port id -> times BindPort + ClaimCapability succeeded for it
    portRet,       \* the last call of the binder and what it returned
    portCalls,     \* number of binder calls made
    claims,        \* capability keeper: the claims (module, capability, name) of all modules
    \* ---- ping/pong players (relay_pingpong_test.go) and their transport ----
    deployed,      \* wasmkeeper.MockContracts: the players registered as contracts
    store,         \* actor -> the contract's prefix store
    execCalls,     \* actor -> player.execCalls
    chanState,     \* actor -> channel id -> state of the channel handshake
    packets,       \* the packets the players sent, in sending order
    foreignRecvs,  \* number of packets received from contracts other than the players
    lastCall,      \* the last contract callback, its input and what it returned
    \* ---- gas register (x/wasm/keeper/gas_register.go) ----
    register,      \* the GasRegister of the keeper
    gasRet,        \* the last call of a register method and what it returned
    apiCosts,      \* the package variables costHumanize and costCanonical
    apiDefaults,   \* DefaultGasCostHumanAddress and DefaultGasCostCanonicalAddress
    \* ---- sub-message dispatch pipeline ----
    ledger,        \* the ledger state the message handlers read and write
    pipeRet,       \* the last dispatch of a message list and what it returned
    \* ---- governance proposals (WasmProposal and the five proposal types) ----
    propRet        \* the last call of a proposal's ValidateBasic and its error

codecVars == <<codeID, instanceID, portID, resolved>>
portVars == <<portKeeperNil, boundPorts, heldCaps, ensured, ensureBinds, bindOk,
              portRet, portCalls, claims>>
gameVars == <<deployed, store, execCalls, chanState, packets, foreignRecvs, lastCall>>
gasVars == <<register, gasRet, apiCosts, apiDefaults>>
pipeVars == <<ledger, pipeRet>>
propVars == <<propRet>>
vars == <<codecVars, portVars, gameVars, gasVars, pipeVars, propVars>>

-----------------------------------------------------------------------------
(* uint64 arithmetic on bit sequences                                      *)

\* width of uint64
W == 64

\* the uint64 of a natural number below 2^31
FromNat(n) == [i \in 1..W |-> IF i <= 31 THEN (n \div (2^(i-1))) % 2 ELSE 0]

\* 2^k - 1
LowOnes(k) == [i \in 1..W |-> IF i <= k THEN 1 ELSE 0]

\* x << k and x >> k on uint64
Shl(x, k) == [i \in 1..W |-> IF i <= k THEN 0 ELSE x[i-k]]
Shr(x, k) == [i \in 1..W |-> IF i + k <= W THEN x[i+k] ELSE 0]

BitAnd(x, y) == [i \in 1..W |-> x[i] * y[i]]
BitOr(x, y) == [i \in 1..W |-> IF x[i] + y[i] > 0 THEN 1 ELSE 0]

Add64(x, y) ==
    \* x + y modulo 2^64
    LET RECURSIVE AddFrom(_, _, _, _)
        AddFrom(x0, y0, i0, carry0) ==
            IF i0 > W THEN <<>>
            ELSE <<(x0[i0] + y0[i0] + carry0) % 2>>
                 \o AddFrom(x0, y0, i0 + 1, (x0[i0] + y0[i0] + carry0) \div 2)
    IN  AddFrom(x, y, 1, 0)

\* x >= 2^k
GeqPow2(x, k) == \E i \in (k+1)..W : x[i] = 1

-----------------------------------------------------------------------------
(* encoding/binary: PutUvarint and Uvarint                                 *)

MaxVarintLen64 == 10

\* binary.PutUvarint: the bytes written for x
RECURSIVE PutUvarint(_)
PutUvarint(x) ==
    \* the low k bits of x as a natural number, k <= 30
    LET RECURSIVE LowNat(_, _)
        LowNat(x0, k0) == IF k0 = 0 THEN 0 ELSE x0[k0] * 2^(k0-1) + LowNat(x0, k0 - 1)
    IN
    IF GeqPow2(x, 7)
    THEN <<LowNat(x, 7) + 128>> \o PutUvarint(Shr(x, 7))
    ELSE <<LowNat(x, 8)>>

Uvarint(buf) ==
    \* binary.Uvarint: [x |-> value, n |-> bytes read]; n = 0: buffer too small,
    \* n < 0: value larger than 64 bits
    LET RECURSIVE UvarintFrom(_, _, _, _)
        UvarintFrom(buf0, i0, x0, s0) ==
            IF i0 >= Len(buf0) THEN [x |-> FromNat(0), n |-> 0]
            ELSE IF i0 = MaxVarintLen64 THEN [x |-> FromNat(0), n |-> -(i0 + 1)]
            ELSE LET b == buf0[i0+1] IN
                 IF b < 128
                 THEN IF i0 = MaxVarintLen64 - 1 /\ b > 1
                      THEN [x |-> FromNat(0), n |-> -(i0 + 1)]
                      ELSE [x |-> BitOr(x0, Shl(FromNat(b), s0)), n |-> i0 + 1]
                 ELSE UvarintFrom(buf0, i0 + 1, BitOr(x0, Shl(FromNat(b % 128), s0)), s0 + 7)
    IN  UvarintFrom(buf, 0, FromNat(0), 0)

-----------------------------------------------------------------------------
(* encoding/base64: StdEncoding.WithPadding(NoPadding)                     *)

RECURSIVE EncodeToString(_)
EncodeToString(b) ==
    \* the standard alphabet, index 0..63 to ASCII code
    LET EncodeStd(v) ==
            IF v < 26 THEN 65 + v
            ELSE IF v < 52 THEN 97 + (v - 26)
            ELSE IF v < 62 THEN 48 + (v - 52)
            ELSE IF v = 62 THEN 43 ELSE 47
    IN
    IF Len(b) = 0 THEN <<>>
    ELSE IF Len(b) = 1 THEN
        LET v == b[1] * 65536
        IN  <<EncodeStd((v \div 262144) % 64), EncodeStd((v \div 4096) % 64)>>
    ELSE IF Len(b) = 2 THEN
        LET v == b[1] * 65536 + b[2] * 256
        IN  <<EncodeStd((v \div 262144) % 64), EncodeStd((v \div 4096) % 64),
              EncodeStd((v \div 64) % 64)>>
    ELSE
        LET v == b[1] * 65536 + b[2] * 256 + b[3]
        IN  <<EncodeStd((v \div 262144) % 64), EncodeStd((v \div 4096) % 64),
              EncodeStd((v \div 64) % 64), EncodeStd(v % 64)>>
            \o EncodeToString(SubSeq(b, 4, Len(b)))

\* DecodeString: [err |-> TRUE] on a byte outside the alphabet or a dangling
\* single character, else the decoded bytes (trailing bits are not checked)
DecodeString(s) ==
    LET RECURSIVE DecodeQuanta(_)
        DecodeQuanta(d) ==
            IF Len(d) = 0 THEN <<>>
            ELSE IF Len(d) = 2 THEN
                LET v == d[1] * 262144 + d[2] * 4096 IN <<v \div 65536>>
            ELSE IF Len(d) = 3 THEN
                LET v == d[1] * 262144 + d[2] * 4096 + d[3] * 64
                IN  <<v \div 65536, (v \div 256) % 256>>
            ELSE
                LET v == d[1] * 262144 + d[2] * 4096 + d[3] * 64 + d[4]
                IN  <<v \div 65536, (v \div 256) % 256, v % 256>>
                    \o DecodeQuanta(SubSeq(d, 5, Len(d)))
    IN
    \* the decoder skips '\r' and '\n'
    LET RECURSIVE StripNewlines(_)
        StripNewlines(s0) ==
            IF Len(s0) = 0 THEN <<>>
            ELSE IF s0[1] = 10 \/ s0[1] = 13 THEN StripNewlines(Tail(s0))
            ELSE <<s0[1]>> \o StripNewlines(Tail(s0))
    IN
    \* the decode map, ASCII code to index, -1 for a byte outside the alphabet
    LET DecodeMap(ch) ==
            IF ch >= 65 /\ ch <= 90 THEN ch - 65
            ELSE IF ch >= 97 /\ ch <= 122 THEN ch - 97 + 26
            ELSE IF ch >= 48 /\ ch <= 57 THEN ch - 48 + 52
            ELSE IF ch = 43 THEN 62
            ELSE IF ch = 47 THEN 63
            ELSE -1
    IN
    LET t == StripNewlines(s)
        d == [i \in 1..Len(t) |-> DecodeMap(t[i])]
    IN  IF (\E i \in 1..Len(t) : d[i] = -1) \/ Len(t) % 4 = 1
        THEN [err |-> TRUE, data |-> <<>>]
        ELSE [err |-> FALSE, data |-> DecodeQuanta(d)]

-----------------------------------------------------------------------------
(* x/wasm/internal/keeper/ibc.go: port id codec                            *)

\* "wasm"
portIDPrefix == <<119, 97, 115, 109>>

\* ContractFromPortID with the code id taken from bit 31 up
ContractFromPortID_shift31(p) ==
    IF ~(Len(p) >= Len(portIDPrefix) /\ SubSeq(p, 1, Len(portIDPrefix)) = portIDPrefix)
    THEN [ok |-> FALSE, err |-> "without prefix"]
    ELSE LET dec == DecodeString(SubSeq(p, Len(portIDPrefix) + 1, Len(p))) IN
         IF dec.err THEN [ok |-> FALSE, err |-> "decoding payload data"]
         ELSE LET r == Uvarint(dec.data) IN
              IF r.n = 0 /\ r.n <= 0
              THEN [ok |-> FALSE, err |-> "decoding contract id"]
              ELSE [ok |-> TRUE, err |-> "",
                    codeID |-> Shr(r.x, 31),
                    instanceID |-> BitAnd(r.x, LowOnes(32))]

PortIDForContract(c, i) ==
    LET contractID == Add64(Shl(c, 32), i)
        data == PutUvarint(contractID)
    IN  portIDPrefix \o EncodeToString(data)

\* ContractFromPortID that cuts the first four characters unchecked
ContractFromPortID_noprefix(p) ==
    LET dec == DecodeString(SubSeq(p, Len(portIDPrefix) + 1, Len(p))) IN
    IF dec.err THEN [ok |-> FALSE, err |-> "decoding payload data"]
    ELSE LET r == Uvarint(dec.data) IN
         IF r.n = 0 /\ r.n <= 0
         THEN [ok |-> FALSE, err |-> "decoding contract id"]
         ELSE [ok |-> TRUE, err |-> "",
               codeID |-> Shr(r.x, 32),
               instanceID |-> BitAnd(r.x, LowOnes(32))]

\* the result is the (codeID, instanceID) handed to contractAddress
ContractFromPortID(p) ==
    IF ~(Len(p) >= Len(portIDPrefix) /\ SubSeq(p, 1, Len(portIDPrefix)) = portIDPrefix)
    THEN [ok |-> FALSE, err |-> "without prefix"]
    ELSE LET dec == DecodeString(SubSeq(p, Len(portIDPrefix) + 1, Len(p))) IN
         IF dec.err THEN [ok |-> FALSE, err |-> "decoding payload data"]
         ELSE LET r == Uvarint(dec.data) IN
              IF r.n = 0 /\ r.n <= 0
              THEN [ok |-> FALSE, err |-> "decoding contract id"]
              ELSE [ok |-> TRUE, err |-> "",
                    codeID |-> Shr(r.x, 32),
                    instanceID |-> BitAnd(r.x, LowOnes(32))]

-----------------------------------------------------------------------------
(* Specification of the codec: ids drawn around the encoding's boundaries  *)

\* how far above each boundary value the ids are drawn
IdSpread == 1

IdSet ==
    \* 0, 2^7-1, 2^14-1, 2^32-1 and 2^64-1, each plus 0..IdSpread (mod 2^64)
    LET IdBases == {LowOnes(0), LowOnes(7), LowOnes(14), LowOnes(32), LowOnes(64)}
    IN  {Add64(b, FromNat(d)) : b \in IdBases, d \in 0..IdSpread}

NoString == <<0>>
NoResult == [ok |-> FALSE, err |-> "not called"]

\* portID := PortIDForContract(codeID, instanceID)
DerivePort ==
    /\ portID = NoString
    /\ portID' = PortIDForContract(codeID, instanceID)
    /\ UNCHANGED <<codeID, instanceID, resolved>>
    /\ UNCHANGED <<portVars, gameVars, gasVars, pipeVars, propVars>>

\* resolved := ContractFromPortID(portID)
ResolvePort ==
    /\ portID # NoString
    /\ resolved = NoResult
    /\ resolved' = ContractFromPortID(portID)
    /\ UNCHANGED <<codeID, instanceID, portID>>
    /\ UNCHANGED <<portVars, gameVars, gasVars, pipeVars, propVars>>

CodecNext == DerivePort \/ ResolvePort

-----------------------------------------------------------------------------
(* Specification of the resolver: ContractFromPortID of any string         *)

\* bytes of the generated payloads
MaxPayload == 2

\* strings.HasPrefix
HasPrefix(s, prefix) == Len(s) >= Len(prefix) /\ SubSeq(s, 1, Len(prefix)) = prefix

\* the error wraps types.ErrInvalid
IsErrInvalid(r) == ~r.ok /\ r.err \in {"without prefix", "decoding contract id"}

ResolveNext == ResolvePort

-----------------------------------------------------------------------------
(* x/wasm/internal/keeper/ibc.go: port binding.  The capability authority  *)
(* (port keeper and scoped capability keeper) is an external collaborator: *)
(* BindPort, GetCapability and ClaimCapability follow spec sections 4.2/6. *)

\* host.PortPath: "ports/" + portID
PortPath(p) == <<112, 111, 114, 116, 115, 47>> \o p

\* the state of the capability authority as seen by a keeper: the bound
\* ports, the names the keeper holds, and every recorded <<capability, name>>.
\* A capability is identified by the port path it was created for.
Authority ==
    [bound |-> boundPorts, held |-> heldCaps,
     claimed |-> {<<n, n>> : n \in heldCaps}]

\* portKeeper.BindPort: creates the capability of an unbound port, fails
\* when the port is already bound
BindPort(a, p) ==
    IF PortPath(p) \in a.bound
    THEN [a |-> a, ok |-> FALSE, cap |-> PortPath(p)]
    ELSE [a |-> [a EXCEPT !.bound = @ \cup {PortPath(p)}], ok |-> TRUE,
          cap |-> PortPath(p)]

\* Keeper.ClaimCapability
ClaimCapability(a, cap, name) ==
    \* scopedKeeper.ClaimCapability: fails when the keeper already holds the
    \* name or the name is claimed by a different capability
    LET ScopedClaimCapability(a0, cap0, name0) ==
            IF name0 \in a0.held \/ (\E c \in a0.claimed : c[2] = name0 /\ c[1] # cap0)
            THEN [a |-> a0, ok |-> FALSE]
            ELSE [a |-> [a0 EXCEPT !.held = @ \cup {name0},
                                  !.claimed = @ \cup {<<cap0, name0>>}],
                  ok |-> TRUE]
    IN  ScopedClaimCapability(a, cap, name)

\* bindIbcPort without the check for a nil port keeper
bindIbcPort_nonil(nilKeeper, a, p) ==
    LET b == BindPort(a, p) IN
    IF ~b.ok
    THEN [a |-> a, err |-> "port is already bound", bind |-> TRUE, bound |-> FALSE]
    ELSE LET c == ClaimCapability(b.a, b.cap, PortPath(p)) IN
         IF ~c.ok
         THEN [a |-> b.a, err |-> "capability already claimed", bind |-> TRUE,
               bound |-> FALSE]
         ELSE [a |-> c.a, err |-> "", bind |-> TRUE, bound |-> TRUE]

\* bindIbcPort that claims the port's capability although BindPort failed
bindIbcPort_rebind(nilKeeper, a, p) ==
    IF nilKeeper THEN [a |-> a, err |-> "", bind |-> FALSE, bound |-> FALSE]
    ELSE LET b == BindPort(a, p)
             c == ClaimCapability(b.a, b.cap, PortPath(p))
         IN  IF ~c.ok
             THEN [a |-> b.a, err |-> "capability already claimed", bind |-> TRUE,
                   bound |-> FALSE]
             ELSE [a |-> c.a, err |-> "", bind |-> TRUE, bound |-> TRUE]

\* Keeper.bindIbcPort: [a |-> authority after, err |-> "" for nil,
\* bind |-> BindPort was invoked, bound |-> bind and claim both succeeded].
\* A failed claim leaves the port bound: the function undoes nothing.
bindIbcPort(nilKeeper, a, p) ==
    IF nilKeeper THEN [a |-> a, err |-> "", bind |-> FALSE, bound |-> FALSE]
    ELSE LET b == BindPort(a, p) IN
         IF ~b.ok
         THEN [a |-> a, err |-> "port is already bound", bind |-> TRUE, bound |-> FALSE]
         ELSE LET c == ClaimCapability(b.a, b.cap, PortPath(p)) IN
              IF ~c.ok
              THEN [a |-> b.a, err |-> "capability already claimed", bind |-> TRUE,
                    bound |-> FALSE]
              ELSE [a |-> c.a, err |-> "", bind |-> TRUE, bound |-> TRUE]

\* ensureIbcPort without the GetCapability check: binds unconditionally
ensureIbcPort_nocheck(nilKeeper, a, c, i) ==
    IF nilKeeper
    THEN [a |-> a, portID |-> PortIDForContract(c, i), err |-> "",
          asked |-> FALSE, bind |-> FALSE, bound |-> FALSE]
    ELSE LET p == PortIDForContract(c, i)
             r == bindIbcPort(nilKeeper, a, p)
         IN  [a |-> r.a, portID |-> p, err |-> r.err, asked |-> FALSE,
              bind |-> r.bind, bound |-> r.bound]

\* Keeper.ensureIbcPort; asked |-> GetCapability was invoked
ensureIbcPort(nilKeeper, a, c, i) ==
    \* scopedKeeper.GetCapability: ok iff the keeper claimed a capability by that name
    LET GetCapability(a0, name0) == name0 \in a0.held
    IN
    IF nilKeeper
    THEN [a |-> a, portID |-> PortIDForContract(c, i), err |-> "",
          asked |-> FALSE, bind |-> FALSE, bound |-> FALSE]
    ELSE LET p == PortIDForContract(c, i) IN
         IF GetCapability(a, PortPath(p))
         THEN [a |-> a, portID |-> p, err |-> "", asked |-> TRUE, bind |-> FALSE,
               bound |-> FALSE]
         ELSE LET r == bindIbcPort(nilKeeper, a, p)
              IN  [a |-> r.a, portID |-> p, err |-> r.err, asked |-> TRUE,
                   bind |-> r.bind, bound |-> r.bound]

-----------------------------------------------------------------------------
(* Specification of the binder: ensureIbcPort and bindIbcPort called in    *)
(* any order by the keeper, on ids that include a colliding pair           *)

\* contract ids 0..MaxPortId, and 2^32: (2^32, 0) packs like (0, 0), (0, 2^32) like (1, 0)
MaxPortId == 0
\* the number of binder calls
MaxPortCalls == 4

PortIdSet == {FromNat(n) : n \in 0..MaxPortId} \cup {Shl(FromNat(1), 32)}
PortPairs == PortIdSet \X PortIdSet
PortNames == {PortIDForContract(q[1], q[2]) : q \in PortPairs}

NoCall == [op |-> "none"]

\* one call of k.ensureIbcPort(ctx, c, i)
EnsureIbcPort(c, i) ==
    /\ portCalls < MaxPortCalls
    /\ \E r \in {ensureIbcPort(portKeeperNil, Authority, c, i)} :
        /\ portCalls' = portCalls + 1
        /\ boundPorts' = r.a.bound
        /\ heldCaps' = r.a.held
        /\ ensured' = IF r.err = "" /\ ensured[<<c, i>>] = NoString
                      THEN [ensured EXCEPT ![<<c, i>>] = r.portID] ELSE ensured
        /\ ensureBinds' = IF r.bind THEN [ensureBinds EXCEPT ![r.portID] = @ + 1]
                          ELSE ensureBinds
        /\ bindOk' = IF r.bound THEN [bindOk EXCEPT ![r.portID] = @ + 1] ELSE bindOk
        /\ portRet' = [op |-> "ensure", codeID |-> c, instanceID |-> i,
                       portID |-> r.portID, err |-> r.err, bind |-> r.bind,
                       asked |-> r.asked, prior |-> ensured[<<c, i>>],
                       held |-> PortPath(r.portID) \in heldCaps]
        /\ UNCHANGED <<portKeeperNil, claims>>
        /\ UNCHANGED <<codecVars, gameVars, gasVars, pipeVars, propVars>>

\* one direct call of k.bindIbcPort(ctx, p)
BindIbcPort(p) ==
    /\ portCalls < MaxPortCalls
    /\ \E r \in {bindIbcPort(portKeeperNil, Authority, p)} :
        /\ portCalls' = portCalls + 1
        /\ boundPorts' = r.a.bound
        /\ heldCaps' = r.a.held
        /\ bindOk' = IF r.bound THEN [bindOk EXCEPT ![p] = @ + 1] ELSE bindOk
        /\ portRet' = [op |-> "bind", portID |-> p, err |-> r.err, bind |-> r.bind,
                       held |-> PortPath(p) \in heldCaps]
        /\ UNCHANGED <<portKeeperNil, ensured, ensureBinds, claims>>
        /\ UNCHANGED <<codecVars, gameVars, gasVars, pipeVars, propVars>>

PortNext ==
    \/ \E c \in PortIdSet, i \in PortIdSet : EnsureIbcPort(c, i)
    \/ \E p \in PortNames : BindIbcPort(p)

-----------------------------------------------------------------------------
(* Specification of the owners: several modules, each a keeper with its    *)
(* own scoped capability keeper over one capability table, call            *)
(* ensureIbcPort, bindIbcPort and ClaimCapability in any order             *)

\* instance ids 0..MaxOwnerId of code 0
MaxOwnerId == 1
\* the number of calls
MaxOwnerCalls == 3

\* the capability authority as seen by the keeper of module m
ModuleView(m) ==
    [bound |-> boundPorts,
     held |-> {t.name : t \in {u \in claims : u.owner = m}},
     claimed |-> {<<t.cap, t.name>> : t \in claims}]

\* the capability table after a call of module m: a name that m newly
\* holds is recorded for m, which moves the recorded ownership to m
Recorded(m, before, after) ==
    LET new == after.held \ before.held IN
    {t \in claims : t.name \notin new}
        \cup {[owner |-> m, cap |-> c[1], name |-> c[2]] :
                 c \in {d \in after.claimed : d[2] \in new}}

\* who holds a name, and by which capability
ClaimsOf(cs, name) == {t \in cs : t.name = name}

\* module m calls k.ensureIbcPort(ctx, c, i)
OwnerEnsure(m, c, i) ==
    /\ portCalls < MaxOwnerCalls
    /\ \E r \in {ensureIbcPort(portKeeperNil, ModuleView(m), c, i)} :
        /\ portCalls' = portCalls + 1
        /\ boundPorts' = r.a.bound
        /\ claims' = Recorded(m, ModuleView(m), r.a)
        /\ portRet' = [op |-> "ensure", module |-> m, name |-> PortPath(r.portID),
                       cap |-> PortPath(r.portID), err |-> r.err, before |-> claims]
        /\ UNCHANGED <<portKeeperNil, heldCaps, ensured, ensureBinds, bindOk>>
        /\ UNCHANGED <<codecVars, gameVars, gasVars, pipeVars, propVars>>

\* module m calls k.bindIbcPort(ctx, p)
OwnerBind(m, p) ==
    /\ portCalls < MaxOwnerCalls
    /\ \E r \in {bindIbcPort(portKeeperNil, ModuleView(m), p)} :
        /\ portCalls' = portCalls + 1
        /\ boundPorts' = r.a.bound
        /\ claims' = Recorded(m, ModuleView(m), r.a)
        /\ portRet' = [op |-> "bind", module |-> m, name |-> PortPath(p),
                       cap |-> PortPath(p), err |-> r.err, before |-> claims]
        /\ UNCHANGED <<portKeeperNil, heldCaps, ensured, ensureBinds, bindOk>>
        /\ UNCHANGED <<codecVars, gameVars, gasVars, pipeVars, propVars>>

\* module m calls k.ClaimCapability(ctx, cap, name) with a capability that
\* the port keeper created
OwnerClaim(m, cap, name) ==
    /\ portCalls < MaxOwnerCalls
    /\ cap \in boundPorts
    /\ \E r \in {ClaimCapability(ModuleView(m), cap, name)} :
        /\ portCalls' = portCalls + 1
        /\ claims' = Recorded(m, ModuleView(m), r.a)
        /\ portRet' = [op |-> "claim", module |-> m, name |-> name, cap |-> cap,
                       err |-> IF r.ok THEN "" ELSE "capability already claimed",
                       before |-> claims]
        /\ UNCHANGED <<portKeeperNil, boundPorts, heldCaps, ensured, ensureBinds, bindOk>>
        /\ UNCHANGED <<codecVars, gameVars, gasVars, pipeVars, propVars>>

OwnersNext ==
    LET OwnerPairs == {<<FromNat(0), FromNat(n)>> : n \in 0..MaxOwnerId}
    IN
    LET OwnerPorts == {PortIDForContract(q[1], q[2]) : q \in OwnerPairs}
    IN
    LET Modules == {"wasm", "transfer"}
    IN
    \/ \E m \in Modules, q \in OwnerPairs : OwnerEnsure(m, q[1], q[2])
    \/ \E m \in Modules, p \in OwnerPorts : OwnerBind(m, p)
    \/ \E m \in Modules, p \in OwnerPorts, n \in OwnerPorts :
           OwnerClaim(m, PortPath(p), PortPath(n))

-----------------------------------------------------------------------------
(* x/wasm/relay_pingpong_test.go: payloads.                                *)
(* A uint64 is the integer congruent to it modulo 2^64 that is nearest to  *)
(* zero (2^64-1 is -1), so that count++ wraps as in Go; UGt is the         *)
(* unsigned order.  JSON documents are records: kind "garbage" is text     *)
(* that does not parse, "null" the JSON null, "object" a JSON object.      *)

ping == "ping"
pong == "pong"
Actors == {ping, pong}

doNotTimeout == 110000

\* a > b on uint64
UGt(a, b) == IF (a < 0) = (b < 0) THEN a > b ELSE a < 0

Uint64ToBigEndian(v) ==
    \* sdk.Uint64ToBigEndian: the 8 bytes of v, most significant first
    LET RECURSIVE BigEndianBytes(_, _)
        BigEndianBytes(v0, n0) ==
            IF n0 = 0 THEN <<>> ELSE BigEndianBytes(v0 \div 256, n0 - 1) \o <<v0 % 256>>
    IN  BigEndianBytes(v, 8)

BigEndianToUint64(bz) ==
    \* sdk.BigEndianToUint64: 0 for an empty slice
    LET RECURSIVE BigEndianValue(_, _)
        BigEndianValue(bz0, acc0) ==
            IF Len(bz0) = 0 THEN acc0 ELSE BigEndianValue(Tail(bz0), acc0 * 256 + bz0[1])
    IN
    IF Len(bz) = 0 THEN 0
    ELSE BigEndianValue(Tail(bz), IF bz[1] >= 128 THEN bz[1] - 256 ELSE bz[1])

counterParty(s) == IF s = ping THEN pong ELSE ping

\* a hit: map[string]uint64, isNil for the nil map
NilHit == [isNil |-> TRUE, m |-> <<>>]
NewHit(player, count) == [isNil |-> FALSE, m |-> [k \in {player} |-> count]]

\* h[key], zero for a missing key
HitAt(h, key) == IF ~h.isNil /\ key \in DOMAIN h.m THEN h.m[key] ELSE 0

\* hit.GetBytes: json.Marshal of the map
HitBytes(h) ==
    IF h.isNil THEN [kind |-> "null"]
    ELSE [kind |-> "object", fields |-> [k \in DOMAIN h.m |-> <<"num", h.m[k]>>]]

\* json.Unmarshal(data, &hit): fails on text that is not JSON and on a
\* member that is not an unsigned number
UnmarshalHit(data) ==
    IF data.kind = "garbage" THEN [err |-> <<"invalid character">>, hit |-> NilHit]
    ELSE IF data.kind = "null" THEN [err |-> <<>>, hit |-> NilHit]
    ELSE IF \E k \in DOMAIN data.fields : data.fields[k][1] # "num"
    THEN [err |-> <<"cannot unmarshal into Go value of type uint64">>, hit |-> NilHit]
    ELSE [err |-> <<>>,
          hit |-> [isNil |-> FALSE,
                   m |-> [k \in DOMAIN data.fields |-> data.fields[k][2]]]]

\* hitAcknowledgement.GetBytes: both members are omitempty; Success is a
\* pointer, written as null when it points to the nil map
AckBytes(error, success) ==
    [kind |-> "object", error |-> error,
     success |-> IF Len(success) = 0 THEN <<>> ELSE <<HitBytes(success[1])>>]

\* hit.BuildAck and hit.BuildError
BuildAck(h) == AckBytes(<<>>, <<h>>)
BuildError(h, errMsg) == AckBytes(errMsg, <<>>)

\* json.Unmarshal(ack, &hitAcknowledgement): Success stays nil for an
\* absent or null member
UnmarshalAck(data) ==
    IF data.kind # "object" THEN [err |-> <<"invalid character">>]
    ELSE IF Len(data.success) = 0 \/ data.success[1].kind = "null"
    THEN [err |-> <<>>, Error |-> data.error, Success |-> <<>>]
    ELSE LET u == UnmarshalHit(data.success[1]) IN
         IF Len(u.err) # 0 THEN [err |-> u.err]
         ELSE [err |-> <<>>, Error |-> data.error, Success |-> <<u.hit>>]

-----------------------------------------------------------------------------
(* x/wasm/relay_pingpong_test.go: the player contract                      *)

\* the store of a contract that wrote nothing: every key is absent
EmptyStore ==
    [lastBallSent |-> <<>>, lastBallReceived |-> <<>>, sentBalls |-> <<>>,
     recvBalls |-> <<>>, confBalls |-> <<>>, maxValue |-> <<>>,
     ibcEndpoints |-> <<>>]

\* incrementCounter that returns the new count without storing it
incrementCounter_unsaved(st, key) ==
    LET bz == st[key]
        count == (IF bz # <<>> THEN BigEndianToUint64(bz) ELSE 0) + 1
    IN  [store |-> st, count |-> count]

\* player.incrementCounter
incrementCounter(st, key) ==
    LET bz == st[key]
        count == (IF bz # <<>> THEN BigEndianToUint64(bz) ELSE 0) + 1
    IN  [store |-> [st EXCEPT ![key] = Uint64ToBigEndian(count)], count |-> count]

\* the counterparties list read from ibcEndpointsKey, empty when absent
Counterparties(st) == IF st.ibcEndpoints = <<>> THEN <<>> ELSE st.ibcEndpoints[1]

\* loadEndpoints that returns the first stored pair, whatever its channel
loadEndpoints_any(st, channelID) ==
    LET cps == Counterparties(st)
    IN  IF Len(cps) = 0 THEN [found |-> FALSE]
        ELSE [found |-> TRUE, v |-> cps[1]]

\* player.loadEndpoints: the first pair of the channel; found is FALSE where
\* the code ends the test with t.Fatalf
loadEndpoints(st, channelID) ==
    LET cps == Counterparties(st)
        hits == {n \in 1..Len(cps) : cps[n].Our.Channel = channelID}
    IN  IF hits = {} THEN [found |-> FALSE]
        ELSE [found |-> TRUE,
              v |-> cps[CHOOSE n \in hits : \A o \in hits : n <= o]]

\* storeEndpoint that keeps only the pair of the last channel
storeEndpoint_overwrite(st, channel) ==
    [st EXCEPT !.ibcEndpoints =
        <<<<[Our |-> channel.Endpoint, Their |-> channel.CounterpartyEndpoint]>>>>]

\* player.storeEndpoint
storeEndpoint(st, channel) ==
    [st EXCEPT !.ibcEndpoints =
        <<Append(Counterparties(st),
                 [Our |-> channel.Endpoint, Their |-> channel.CounterpartyEndpoint])>>]

\* OnIBCChannelOpen that also accepts a channel without a version
OnIBCChannelOpen_lax(actor, st, channel) ==
    IF channel.Version # actor /\ channel.Version # ""
    THEN [Success |-> FALSE, store |-> st,
          Reason |-> <<"expected", actor, "but got", channel.Version>>]
    ELSE [Success |-> TRUE, store |-> st, Reason |-> <<>>]

\* OnIBCChannelOpen that persists the endpoints of a channel it accepts
OnIBCChannelOpen_persists(actor, st, channel) ==
    IF channel.Version # actor
    THEN [Success |-> FALSE, store |-> st,
          Reason |-> <<"expected", actor, "but got", channel.Version>>]
    ELSE [Success |-> TRUE, store |-> storeEndpoint(st, channel), Reason |-> <<>>]

\* player.OnIBCChannelOpen: the store it is handed is neither read nor written
OnIBCChannelOpen(actor, st, channel) ==
    IF channel.Version # actor
    THEN [Success |-> FALSE, store |-> st,
          Reason |-> <<"expected", actor, "but got", channel.Version>>]
    ELSE [Success |-> TRUE, store |-> st, Reason |-> <<>>]

\* player.OnIBCChannelConnect
OnIBCChannelConnect(actor, st, channel) ==
    [store |-> storeEndpoint(st, channel), err |-> <<>>]

\* OnIBCPacketReceive that counts the packet before it parses it and
\* returns the parse error
OnIBCPacketReceive_hard(actor, st, packet) ==
    LET u == UnmarshalHit(packet.Data)
        r1 == incrementCounter(st, "recvBalls")
    IN  IF Len(u.err) # 0
        THEN [store |-> r1.store, resp |-> <<>>, err |-> u.err]
        ELSE [store |-> r1.store,
              resp |-> <<[Acknowledgement |-> <<BuildAck(u.hit)>>, Messages |-> <<>>]>>,
              err |-> <<>>]

\* OnIBCPacketReceive that counts its reply before the max value check
OnIBCPacketReceive_earlySend(actor, st, packet) ==
    LET u == UnmarshalHit(packet.Data) IN
    IF Len(u.err) # 0
    THEN [store |-> st,
          resp |-> <<[Acknowledgement |-> <<AckBytes(u.err, <<>>)>>,
                      Messages |-> <<>>]>>,
          err |-> <<>>]
    ELSE LET r1 == incrementCounter(st, "recvBalls")
             otherCount == HitAt(u.hit, counterParty(actor))
             st2 == [r1.store EXCEPT !.lastBallReceived = Uint64ToBigEndian(otherCount)]
             maxVal == st2.maxValue
             r3 == incrementCounter(st2, "lastBallSent")
             r4 == incrementCounter(r3.store, "sentBalls")
         IN  IF maxVal # <<>> /\ UGt(otherCount, BigEndianToUint64(maxVal))
             THEN [store |-> r4.store,
                   resp |-> <<[Acknowledgement |->
                                  <<BuildError(u.hit, <<"max value exceeded",
                                        BigEndianToUint64(maxVal), otherCount>>)>>,
                               Messages |-> <<>>]>>,
                   err |-> <<>>]
             ELSE [store |-> r4.store,
                   resp |-> <<[Acknowledgement |-> <<BuildAck(u.hit)>>,
                               Messages |-> <<[ChannelID |-> packet.Source.Channel,
                                               Data |-> HitBytes(NewHit(actor, r3.count)),
                                               TimeoutHeight |-> doNotTimeout]>>]>>,
                   err |-> <<>>]

\* player.OnIBCPacketReceive: resp is the response (empty for nil), err the
\* returned error (empty for nil)
OnIBCPacketReceive(actor, st, packet) ==
    LET u == UnmarshalHit(packet.Data) IN
    IF Len(u.err) # 0
    THEN [store |-> st,
          resp |-> <<[Acknowledgement |-> <<AckBytes(u.err, <<>>)>>,
                      Messages |-> <<>>]>>,
          err |-> <<>>]
    ELSE LET r1 == incrementCounter(st, "recvBalls")
             otherCount == HitAt(u.hit, counterParty(actor))
             st2 == [r1.store EXCEPT !.lastBallReceived = Uint64ToBigEndian(otherCount)]
             maxVal == st2.maxValue
         IN  IF maxVal # <<>> /\ UGt(otherCount, BigEndianToUint64(maxVal))
             THEN [store |-> st2,
                   resp |-> <<[Acknowledgement |->
                                  <<BuildError(u.hit, <<"max value exceeded",
                                        BigEndianToUint64(maxVal), otherCount>>)>>,
                               Messages |-> <<>>]>>,
                   err |-> <<>>]
             ELSE LET r3 == incrementCounter(st2, "lastBallSent")
                      newHit == NewHit(actor, r3.count)
                      respHit == [ChannelID |-> packet.Source.Channel,
                                  Data |-> HitBytes(newHit),
                                  TimeoutHeight |-> doNotTimeout]
                      r4 == incrementCounter(r3.store, "sentBalls")
                  IN  [store |-> r4.store,
                       resp |-> <<[Acknowledgement |-> <<BuildAck(u.hit)>>,
                                   Messages |-> <<respHit>>]>>,
                       err |-> <<>>]

\* OnIBCPacketAcknowledgement that confirms only a success acknowledgement
OnIBCPacketAcknowledgement_onlyOk(actor, st, packetAck) ==
    LET sent == UnmarshalHit(packetAck.OriginalPacket.Data) IN
    IF Len(sent.err) # 0 THEN [store |-> st, resp |-> <<>>, err |-> sent.err]
    ELSE LET ack == UnmarshalAck(packetAck.Acknowledgement) IN
         IF Len(ack.err) # 0 THEN [store |-> st, resp |-> <<>>, err |-> ack.err]
         ELSE IF Len(ack.Success) # 0
         THEN [store |-> incrementCounter(st, "confBalls").store,
               resp |-> <<"IBCPacketAcknowledgementResponse">>, err |-> <<>>]
         ELSE [store |-> st, resp |-> <<"IBCPacketAcknowledgementResponse">>,
               err |-> <<>>]

\* player.OnIBCPacketAcknowledgement: the success and the error branch only log
OnIBCPacketAcknowledgement(actor, st, packetAck) ==
    LET sent == UnmarshalHit(packetAck.OriginalPacket.Data) IN
    IF Len(sent.err) # 0 THEN [store |-> st, resp |-> <<>>, err |-> sent.err]
    ELSE LET ack == UnmarshalAck(packetAck.Acknowledgement) IN
         IF Len(ack.err) # 0 THEN [store |-> st, resp |-> <<>>, err |-> ack.err]
         ELSE [store |-> incrementCounter(st, "confBalls").store,
               resp |-> <<"IBCPacketAcknowledgementResponse">>, err |-> <<>>]

\* player.OnIBCPacketTimeout: panic("implement me")
OnIBCPacketTimeout(actor, st, packet) ==
    [store |-> st, resp |-> <<>>, err |-> <<>>, panic |-> TRUE]

-----------------------------------------------------------------------------
(* The channel and packet transport the players run on.  It is outside the *)
(* source files: the handshake states, the single resolution of a packet   *)
(* and the atomic rollback of a failed call follow spec sections 1, 4.4,   *)
(* 4.5 and 6.  Both ends of a channel carry the same channel id.           *)

\* the channels of the players' game, and those of a contract with two peers
GameChannels == {"channel-0"}

\* the channel ids of the run
ChannelIds == DOMAIN chanState[ping]

PortOf(actor) == <<"wasm", actor>>

\* the IBCChannel handed to the channel callbacks of actor
ChannelOf(actor, ch, version) ==
    [Endpoint |-> [Port |-> PortOf(actor), Channel |-> ch],
     CounterpartyEndpoint |-> [Port |-> PortOf(counterParty(actor)), Channel |-> ch],
     Version |-> version]

\* the next send sequence of a channel end: one more than the packets sent on it
NextSequenceSend(pk, actor, channel) ==
    1 + Cardinality({n \in 1..Len(pk) :
                        pk[n].from = actor /\ pk[n].packet.SourceChannel = channel})

\* ChannelKeeper.SendPacket: the channel is open and the sequence is the next one
SendPacket(cs, pk, actor, packet) ==
    /\ packet.SourceChannel \in ChannelIds
    /\ cs[actor][packet.SourceChannel] = "OPEN"
    /\ packet.Sequence = NextSequenceSend(pk, actor, packet.SourceChannel)

\* a packet in flight: sent, not yet received, acknowledged or timed out;
\* acks counts the acknowledgement callbacks that returned without error,
\* timeoutFired records that the timeout callback was called
SentPacket(actor, packet) ==
    [from |-> actor, packet |-> packet, status |-> "SENT", ack |-> <<>>,
     acks |-> 0, timeoutFired |-> FALSE]

-----------------------------------------------------------------------------
(* player.Execute: it sends through the transport                          *)

\* player.Execute: fatal is t.Fatalf of loadEndpoints, send the packet handed
\* to SendPacket with success
Execute(actor, st, calls, data, cs, pk) ==
    LET ExecResult(calls0, st0, err0, fatal0, send0) ==
            [execCalls |-> calls0, store |-> st0, err |-> err0, fatal |-> fatal0, send |-> send0]
    IN
    \* json.Unmarshal(data, &startGame)
    LET UnmarshalStart(data0) ==
            IF data0.kind # "startGame" THEN [err |-> <<"invalid character">>]
            ELSE [err |-> <<>>, ChannelID |-> data0.ChannelID, Value |-> data0.Value,
                  MaxValue |-> data0.MaxValue]
    IN
    \* ScopedKeeper.GetCapability(host.ChannelCapabilityPath(port, channel)): the
    \* keeper owns the capability of every channel whose handshake it entered
    LET HasChannelCapability(cs0, actor0, port0, channel0) ==
            /\ port0 = PortOf(actor0)
            /\ channel0 \in ChannelIds
            /\ cs0[actor0][channel0] # "UNINITIALIZED"
    IN
    IF (calls + 1) % 2 = 1
    THEN ExecResult(calls + 1, st, <<>>, FALSE, <<>>)
    ELSE LET start == UnmarshalStart(data) IN
         IF Len(start.err) # 0
         THEN ExecResult(calls + 1, st, start.err, FALSE, <<>>)
         ELSE LET st1 == IF start.MaxValue # 0
                         THEN [st EXCEPT !.maxValue = Uint64ToBigEndian(start.MaxValue)]
                         ELSE st
                  endpoints == loadEndpoints(st1, start.ChannelID)
              IN  IF ~endpoints.found
                  THEN ExecResult(calls + 1, st1, <<>>, TRUE, <<>>)
                  ELSE IF ~HasChannelCapability(cs, actor, endpoints.v.Our.Port,
                                                endpoints.v.Our.Channel)
                  THEN ExecResult(calls + 1, st1,
                                  <<"module does not own channel capability">>,
                                  FALSE, <<>>)
                  ELSE LET service == NewHit(actor, start.Value)
                           packet == [Data |-> HitBytes(service), Sequence |-> 1,
                                      SourcePort |-> endpoints.v.Our.Port,
                                      SourceChannel |-> endpoints.v.Our.Channel,
                                      DestPort |-> endpoints.v.Their.Port,
                                      DestChannel |-> endpoints.v.Their.Channel,
                                      TimeoutHeight |-> doNotTimeout]
                       IN  IF ~SendPacket(cs, pk, actor, packet)
                           THEN ExecResult(calls + 1, st1, <<"send packet failed">>,
                                           FALSE, <<>>)
                           ELSE ExecResult(calls + 1,
                                    [incrementCounter(st1, "sentBalls").store
                                        EXCEPT !.lastBallSent =
                                                   Uint64ToBigEndian(start.Value)],
                                    <<>>, FALSE, <<packet>>)

-----------------------------------------------------------------------------
(* Specifications of the players.  SpecGame: both players are deployed and *)
(* their packets are relayed between them.  SpecPlayer: one player is      *)
(* deployed and the far end of its channels is some other contract, which  *)
(* sends any payload and acknowledges with any acknowledgement.            *)

\* packets a single player sends in one run
MaxPackets == 2
\* packets the two players send each other in one run
MaxRelayed == 6
\* packets received from other contracts in one run
MaxForeign == 1
\* calls of Execute per player (checkTx and deliverTx pairs)
MaxExecCalls == 2
\* endpoint pairs stored per player
MaxPairs == 2

MaxUint64 == -1

\* proposed channel versions: the two roles, no version, and a role in
\* another spelling
Versions == {ping, pong, "", "Ping"}

\* startGame messages, and text that is not JSON
StartMsgs ==
    [kind : {"startGame"}, ChannelID : ChannelIds, Value : {100}, MaxValue : {0, 50}]
        \cup {[kind |-> "garbage"]}

NoInput == [kind |-> "none"]

\* the packets a run may hold
PacketCap == IF deployed = Actors THEN MaxRelayed ELSE MaxPackets

\* a callback of actor on input: pre is the actor's store before the call,
\* resp and err what the callback returned, panic that it did not return,
\* committed that the call's writes and sends took effect
Call(op, actor, input, pre, resp, err, panic, committed) ==
    [op |-> op, actor |-> actor, input |-> input, pre |-> pre, resp |-> resp,
     err |-> err, panic |-> panic, committed |-> committed]

\* the open proposal of a channel: OnIBCChannelOpen decides
ChannelOpen(a, ch, version) ==
    /\ chanState[a][ch] = "UNINITIALIZED"
    /\ \E r \in {OnIBCChannelOpen(a, store[a], ChannelOf(a, ch, version))} :
        /\ chanState' = IF r.Success
                        THEN [chanState EXCEPT ![a][ch] = "OPEN_PENDING"]
                        ELSE chanState
        /\ store' = [store EXCEPT ![a] = r.store]
        /\ lastCall' = Call("open", a, ChannelOf(a, ch, version), store[a],
                            <<[Success |-> r.Success, Reason |-> r.Reason]>>,
                            <<>>, FALSE, TRUE)
    /\ UNCHANGED <<deployed, execCalls, packets, foreignRecvs>>
    /\ UNCHANGED <<codecVars, portVars, gasVars, pipeVars, propVars>>

\* the connect confirmation of a channel, or its replay: OnIBCChannelConnect
ChannelConnect(a, ch) ==
    /\ chanState[a][ch] \in {"OPEN_PENDING", "OPEN"}
    /\ Len(Counterparties(store[a])) < MaxPairs
    /\ \E r \in {OnIBCChannelConnect(a, store[a], ChannelOf(a, ch, a))} :
        /\ store' = [store EXCEPT ![a] = r.store]
        /\ chanState' = [chanState EXCEPT ![a][ch] = "OPEN"]
        /\ lastCall' = Call("connect", a, ChannelOf(a, ch, a), store[a],
                            <<"IBCChannelConnectResponse">>, r.err, FALSE, TRUE)
    /\ UNCHANGED <<deployed, execCalls, packets, foreignRecvs>>
    /\ UNCHANGED <<codecVars, portVars, gasVars, pipeVars, propVars>>

\* a MsgExecuteContract for a player: Execute; an error or t.Fatalf leaves
\* the store as it was
ExecuteContract(a, msg) ==
    /\ execCalls[a] < MaxExecCalls
    /\ \E r \in {Execute(a, store[a], execCalls[a], msg, chanState, packets)} :
        /\ Len(packets) + Len(r.send) <= PacketCap
        /\ execCalls' = [execCalls EXCEPT ![a] = r.execCalls]
        /\ store' = IF Len(r.err) = 0 /\ ~r.fatal
                    THEN [store EXCEPT ![a] = r.store] ELSE store
        /\ packets' = IF Len(r.send) = 0 THEN packets
                      ELSE Append(packets, SentPacket(a, r.send[1]))
        /\ lastCall' = Call("execute", a, msg, store[a],
                            IF Len(r.err) = 0 /\ ~r.fatal
                            THEN <<"HandleResponse">> ELSE <<>>,
                            r.err, r.fatal, Len(r.err) = 0 /\ ~r.fatal)
    /\ UNCHANGED <<deployed, chanState, foreignRecvs>>
    /\ UNCHANGED <<codecVars, portVars, gasVars, pipeVars, propVars>>

\* the packets of the messages a receive returned, sent in order; ok is FALSE
\* when a send fails
RECURSIVE Dispatch(_, _, _, _)
Dispatch(cs, pk, a, msgs) ==
    \* the packet of a cosmwasm IBCSendMsg returned by actor
    LET PacketOfMsg(pk0, actor0, msg0) ==
            [Data |-> msg0.Data,
             Sequence |-> IF msg0.ChannelID \in ChannelIds
                          THEN NextSequenceSend(pk0, actor0, msg0.ChannelID) ELSE 0,
             SourcePort |-> PortOf(actor0), SourceChannel |-> msg0.ChannelID,
             DestPort |-> PortOf(counterParty(actor0)), DestChannel |-> msg0.ChannelID,
             TimeoutHeight |-> msg0.TimeoutHeight]
    IN
    IF Len(msgs) = 0 THEN [ok |-> TRUE, packets |-> pk]
    ELSE LET packet == PacketOfMsg(pk, a, msgs[1]) IN
         IF ~SendPacket(cs, pk, a, packet) THEN [ok |-> FALSE, packets |-> pk]
         ELSE Dispatch(cs, Append(pk, SentPacket(a, packet)), a, Tail(msgs))

\* OnIBCPacketReceive of actor a for the IBCPacket in, then the dispatch of
\* the returned messages; pk holds the acknowledgement of a relayed packet
ReceiveAt(a, in, pk) ==
    \E r \in {OnIBCPacketReceive(a, store[a], in)} :
      \E d \in {IF Len(r.err) = 0 /\ Len(r.resp) = 1
                THEN Dispatch(chanState, pk, a, r.resp[1].Messages)
                ELSE [ok |-> FALSE, packets |-> pk]} :
        /\ Len(d.packets) <= PacketCap
        /\ store' = IF d.ok THEN [store EXCEPT ![a] = r.store] ELSE store
        /\ packets' = IF d.ok THEN d.packets ELSE packets
        /\ lastCall' = Call("receive", a, in, store[a], r.resp, r.err, FALSE, d.ok)

\* packet n is relayed to the other player
RecvPacket(n) ==
    /\ counterParty(packets[n].from) \in deployed
    /\ packets[n].status = "SENT"
    /\ packets[n].ack = <<>>
    /\ LET a == counterParty(packets[n].from)
           p == packets[n].packet
           in == [Data |-> p.Data, Sequence |-> p.Sequence,
                  Source |-> [Port |-> p.SourcePort, Channel |-> p.SourceChannel],
                  Destination |-> [Port |-> p.DestPort, Channel |-> p.DestChannel]]
           r == OnIBCPacketReceive(a, store[a], in)
       IN  /\ chanState[a][p.DestChannel] = "OPEN"
           /\ ReceiveAt(a, in,
                  IF Len(r.err) = 0 /\ Len(r.resp) = 1
                  THEN [packets EXCEPT ![n].ack = r.resp[1].Acknowledgement]
                  ELSE packets)
    /\ UNCHANGED <<deployed, execCalls, chanState, foreignRecvs>>
    /\ UNCHANGED <<codecVars, portVars, gasVars, pipeVars, propVars>>

\* another contract at the far end of channel ch sends data to player a
RecvForeign(a, ch, data) ==
    /\ counterParty(a) \notin deployed
    /\ chanState[a][ch] = "OPEN"
    /\ foreignRecvs < MaxForeign
    /\ foreignRecvs' = foreignRecvs + 1
    /\ ReceiveAt(a, [Data |-> data, Sequence |-> foreignRecvs + 1,
                     Source |-> [Port |-> <<"wasm", "other">>, Channel |-> ch],
                     Destination |-> [Port |-> PortOf(a), Channel |-> ch]],
                 packets)
    /\ UNCHANGED <<deployed, execCalls, chanState>>
    /\ UNCHANGED <<codecVars, portVars, gasVars, pipeVars, propVars>>

\* the acknowledgement ack of packet n reaches its sender:
\* OnIBCPacketAcknowledgement; an error leaves the packet unresolved
AckAt(n, ack) ==
    LET a == packets[n].from
        in == [Acknowledgement |-> ack,
               OriginalPacket |-> [Data |-> packets[n].packet.Data,
                                   Sequence |-> packets[n].packet.Sequence]]
    IN  \E r \in {OnIBCPacketAcknowledgement(a, store[a], in)} :
            /\ store' = IF Len(r.err) = 0 THEN [store EXCEPT ![a] = r.store] ELSE store
            /\ packets' = IF Len(r.err) = 0
                          THEN [packets EXCEPT ![n].status = "ACKNOWLEDGED",
                                               ![n].acks = @ + 1]
                          ELSE packets
            /\ lastCall' = Call("ack", a, in, store[a], r.resp, r.err, FALSE,
                                Len(r.err) = 0)

\* the acknowledgement the other player wrote is relayed back
AckPacket(n) ==
    /\ packets[n].status = "SENT"
    /\ packets[n].ack # <<>>
    /\ AckAt(n, packets[n].ack[1])
    /\ UNCHANGED <<deployed, execCalls, chanState, foreignRecvs>>
    /\ UNCHANGED <<codecVars, portVars, gasVars, pipeVars, propVars>>

\* another contract at the far end received packet n and acknowledged with ack
AckForeign(n, ack) ==
    /\ counterParty(packets[n].from) \notin deployed
    /\ packets[n].status = "SENT"
    /\ packets[n].ack = <<>>
    /\ AckAt(n, ack)
    /\ UNCHANGED <<deployed, execCalls, chanState, foreignRecvs>>
    /\ UNCHANGED <<codecVars, portVars, gasVars, pipeVars, propVars>>

\* the timeout of packet n, never received, fires: OnIBCPacketTimeout; the
\* panic aborts the call and the packet stays unresolved
TimeoutPacket(n) ==
    /\ packets[n].status = "SENT"
    /\ packets[n].ack = <<>>
    /\ LET a == packets[n].from
           in == [Data |-> packets[n].packet.Data,
                  Sequence |-> packets[n].packet.Sequence]
       IN  \E r \in {OnIBCPacketTimeout(a, store[a], in)} :
            /\ store' = IF r.panic THEN store ELSE [store EXCEPT ![a] = r.store]
            /\ packets' = IF r.panic
                          THEN [packets EXCEPT ![n].timeoutFired = TRUE]
                          ELSE [packets EXCEPT ![n].timeoutFired = TRUE,
                                               ![n].status = "TIMED_OUT"]
            /\ lastCall' = Call("timeout", a, in, store[a], r.resp, r.err, r.panic,
                                ~r.panic)
    /\ UNCHANGED <<deployed, execCalls, chanState, foreignRecvs>>
    /\ UNCHANGED <<codecVars, portVars, gasVars, pipeVars, propVars>>

\* the handshake runs once per channel end and every packet is relayed
\* before its timeout height (doNotTimeout)
GameNext ==
    \/ \E a \in deployed, ch \in ChannelIds, v \in Versions : ChannelOpen(a, ch, v)
    \/ \E a \in deployed, ch \in ChannelIds :
            chanState[a][ch] = "OPEN_PENDING" /\ ChannelConnect(a, ch)
    \/ \E a \in deployed, msg \in StartMsgs : ExecuteContract(a, msg)
    \/ \E n \in 1..Len(packets) : RecvPacket(n)
    \/ \E n \in 1..Len(packets) : AckPacket(n)

PlayerNext ==
    \* acknowledgements of other contracts
    LET ForeignAcks ==
            {[kind |-> "garbage"],
             AckBytes(<<>>, <<>>),
             AckBytes(<<"rejected">>, <<>>),
             AckBytes(<<>>, <<NewHit(ping, 100)>>),
             AckBytes(<<>>, <<NilHit>>)}
    IN
    \* packet payloads of other contracts
    LET ForeignData ==
            {[kind |-> "garbage"], [kind |-> "null"]}
                \cup {[kind |-> "object", fields |-> [k \in {a} |-> <<"num", v>>]] :
                         a \in Actors, v \in {7, MaxUint64}}
                \cup {[kind |-> "object", fields |-> [k \in {ping} |-> <<"str">>]]}
    IN
    \/ \E a \in deployed, ch \in ChannelIds, v \in Versions : ChannelOpen(a, ch, v)
    \/ \E a \in deployed, ch \in ChannelIds : ChannelConnect(a, ch)
    \/ \E a \in deployed, msg \in StartMsgs : ExecuteContract(a, msg)
    \/ \E a \in deployed, ch \in ChannelIds, data \in ForeignData :
            RecvForeign(a, ch, data)
    \/ \E n \in 1..Len(packets), ack \in ForeignAcks : AckForeign(n, ack)
    \/ \E n \in 1..Len(packets) : TimeoutPacket(n)

-----------------------------------------------------------------------------
(* Specification of the endpoint store: the ping player with channels to   *)
(* two other contracts                                                     *)

StoreNext ==
    LET StoreAcks == {AckBytes(<<>>, <<NewHit(ping, 100)>>)}
    IN
    \* one well-formed payload and one well-formed acknowledgement of the peers
    LET StoreData == {[kind |-> "object", fields |-> [k \in {pong} |-> <<"num", 7>>]]}
    IN
    \* startGame messages for either channel, and text that is not JSON
    LET StoreMsgs ==
            [kind : {"startGame"}, ChannelID : ChannelIds, Value : {100}, MaxValue : {0, 50}]
                \cup {[kind |-> "garbage"]}
    IN
    \/ \E a \in deployed, ch \in ChannelIds, v \in Versions : ChannelOpen(a, ch, v)
    \/ \E a \in deployed, ch \in ChannelIds : ChannelConnect(a, ch)
    \/ \E a \in deployed, msg \in StoreMsgs : ExecuteContract(a, msg)
    \/ \E a \in deployed, ch \in ChannelIds, data \in StoreData :
            RecvForeign(a, ch, data)
    \/ \E n \in 1..Len(packets), ack \in StoreAcks : AckForeign(n, ack)
    \/ \E n \in 1..Len(packets) : TimeoutPacket(n)

-----------------------------------------------------------------------------
(* sdk.Int and exact uint64 arithmetic.  A wide integer is a sequence of   *)
(* digits 0..255, least significant digit first; both operands of one call *)
(* have the same number of digits.                                         *)

\* digits of the sdk.Int values of EventCosts: the sum of two products of
\* uint64 values is below 2^129
IntDigits == 17

\* the uint64 x in n >= 8 digits
Digits(x, n) ==
    \* digit k of the uint64 x
    LET DigitOf(x0, k0) ==
            x0[8*k0-7] + 2 * x0[8*k0-6] + 4 * x0[8*k0-5] + 8 * x0[8*k0-4]
                + 16 * x0[8*k0-3] + 32 * x0[8*k0-2] + 64 * x0[8*k0-1] + 128 * x0[8*k0]
    IN  [k \in 1..n |-> IF k <= 8 THEN DigitOf(x, k) ELSE 0]

\* sdk.NewIntFromUint64
NewIntFromUint64(x) == Digits(x, IntDigits)

RECURSIVE IntAddFrom(_, _, _, _)
IntAddFrom(x, y, k, carry) ==
    IF k > Len(x) THEN <<>>
    ELSE <<(x[k] + y[k] + carry) % 256>>
         \o IntAddFrom(x, y, k + 1, (x[k] + y[k] + carry) \div 256)

\* Int.Add, modulo 256^digits
IntAdd(x, y) == IntAddFrom(x, y, 1, 0)

\* x - y for x >= y
IntSub(x, y) == IntAddFrom(x, [k \in 1..Len(y) |-> 255 - y[k]], 1, 1)

\* x < y
IntLess(x, y) ==
    \E k \in 1..Len(x) : x[k] < y[k] /\ \A j \in (k+1)..Len(x) : x[j] = y[j]

\* Int.Mul: the sum over the digits of y, modulo 256^digits
RECURSIVE IntMulFrom(_, _, _)
IntMulFrom(x, y, k) ==
    \* x * d * 256^shift for one digit d, modulo 256^digits
    LET RECURSIVE IntMulDigit(_, _, _, _, _)
        IntMulDigit(x0, d0, shift0, k0, carry0) ==
            IF k0 > Len(x0) THEN <<>>
            ELSE IF k0 <= shift0 THEN <<0>> \o IntMulDigit(x0, d0, shift0, k0 + 1, 0)
            ELSE <<(x0[k0-shift0] * d0 + carry0) % 256>>
                 \o IntMulDigit(x0, d0, shift0, k0 + 1, (x0[k0-shift0] * d0 + carry0) \div 256)
    IN
    IF k > Len(y) THEN [j \in 1..Len(x) |-> 0]
    ELSE IF y[k] = 0 THEN IntMulFrom(x, y, k + 1)
    ELSE IntAdd(IntMulDigit(x, y[k], k - 1, 1, 0), IntMulFrom(x, y, k + 1))

IntMul(x, y) == IntMulFrom(x, y, 1)

\* Int.IsUint64 and Int.Uint64
IsUint64(r) == \A k \in 9..Len(r) : r[k] = 0
Uint64(r) == [i \in 1..W |-> (r[((i-1) \div 8) + 1] \div (2^((i-1) % 8))) % 2]

\* x * y on uint64: the low 64 bits of the product
Mul64(x, y) == Uint64(IntMul(NewIntFromUint64(x), NewIntFromUint64(y)))

\* long division, the bits j..1 of one digit d of the dividend: q the
\* quotient of these bits, rem the remainder; m # 0 and rem have 9 digits
RECURSIVE DivBits(_, _, _, _)
DivBits(d, m, j, rem) ==
    IF j = 0 THEN [q |-> 0, rem |-> rem]
    ELSE LET shifted == IntAddFrom(rem, rem, 1, (d \div (2^(j-1))) % 2) IN
         IF IntLess(shifted, m)
         THEN DivBits(d, m, j - 1, shifted)
         ELSE LET rest == DivBits(d, m, j - 1, IntSub(shifted, m))
              IN  [q |-> 2^(j-1) + rest.q, rem |-> rest.rem]

\* long division of the digits k..1 of x by m
RECURSIVE DivDigits(_, _, _, _)
DivDigits(x, m, k, rem) ==
    IF k = 0 THEN [q |-> <<>>, rem |-> rem]
    ELSE LET d == DivBits(x[k], m, 8, rem)
             rest == DivDigits(x, m, k - 1, d.rem)
         IN  [q |-> rest.q \o <<d.q>>, rem |-> rest.rem]

\* x / m on uint64, m # 0
Div64(x, m) == Uint64(DivDigits(Digits(x, 8), Digits(m, 9), 8, Digits(FromNat(0), 9)).q)

-----------------------------------------------------------------------------
(* x/wasm/keeper/gas_register.go                                           *)

DefaultGasMultiplier == 100
DefaultInstanceCost == 40000
DefaultCompileCost == 2
DefaultEventAttributeDataCost == 1
DefaultPerAttributeCost == 10
DefaultEventAttributeDataFreeTier == 100

\* the costs are sdk.Gas (uint64), the free tier is an int
NewGasRegister(instanceCost, compileCost, gasMultiplier, eventAttributeCountCost, eventAttributeLengthCost, freeTierAttributeData) ==
    [instanceCost |-> instanceCost,
     compileCost |-> compileCost,
     gasMultiplier |-> gasMultiplier,
     eventPerAttributeCost |-> eventAttributeCountCost,
     eventAttributeDataCost |-> eventAttributeLengthCost,
     eventAttributeDataFreeTier |-> freeTierAttributeData]

\* what a register method returned; panic: it did not return
GasResult(ret, panic) == [ret |-> ret, panic |-> panic]

\* the sum of len(Key) + len(Value) over the attributes
RECURSIVE StoredBytes(_)
StoredBytes(evts) ==
    IF Len(evts) = 0 THEN 0
    ELSE Len(evts[1].Key) + Len(evts[1].Value) + StoredBytes(Tail(evts))

\* BillableBytes without the free tier
BillableBytes_nofree(g, evts) == StoredBytes(evts)

\* the bytes charged after the free tier
BillableBytes(g, evts) ==
    IF StoredBytes(evts) <= g.eventAttributeDataFreeTier THEN 0
    ELSE StoredBytes(evts) - g.eventAttributeDataFreeTier

\* total length * costs + attribute count * costs, as an sdk.Int
EventCostsInt(g, evts) ==
    IntAdd(IntMul(NewIntFromUint64(g.eventAttributeDataCost),
                  NewIntFromUint64(FromNat(BillableBytes(g, evts)))),
           IntMul(NewIntFromUint64(g.eventPerAttributeCost),
                  NewIntFromUint64(FromNat(Len(evts)))))

\* EventCosts that converts the sum without the IsUint64 check
EventCosts_wrap(g, evts) ==
    IF Len(evts) = 0 THEN GasResult(FromNat(0), FALSE)
    ELSE GasResult(Uint64(EventCostsInt(g, evts)), FALSE)

\* GasRegister.EventCosts: panics with ErrorOutOfGas{"overflow"} when the
\* sum is not a uint64
EventCosts(g, evts) ==
    IF Len(evts) = 0 THEN GasResult(FromNat(0), FALSE)
    ELSE IF ~IsUint64(EventCostsInt(g, evts)) THEN GasResult(FromNat(0), TRUE)
    ELSE GasResult(Uint64(EventCostsInt(g, evts)), FALSE)

\* GasRegister.ToWasmVMGas: the uint64 product
ToWasmVMGas(g, source) == GasResult(Mul64(source, g.gasMultiplier), FALSE)

\* FromWasmVMGas that rounds up
FromWasmVMGas_ceil(g, source) ==
    \* x % m on uint64, m # 0
    LET Mod64(x, m) == Uint64(DivDigits(Digits(x, 8), Digits(m, 9), 8, Digits(FromNat(0), 9)).rem)
    IN
    IF g.gasMultiplier = FromNat(0) THEN GasResult(FromNat(0), TRUE)
    ELSE IF Mod64(source, g.gasMultiplier) = FromNat(0)
    THEN GasResult(Div64(source, g.gasMultiplier), FALSE)
    ELSE GasResult(Add64(Div64(source, g.gasMultiplier), FromNat(1)), FALSE)

\* GasRegister.FromWasmVMGas: the uint64 quotient; a division by zero is a
\* run-time panic
FromWasmVMGas(g, source) ==
    IF g.gasMultiplier = FromNat(0) THEN GasResult(FromNat(0), TRUE)
    ELSE GasResult(Div64(source, g.gasMultiplier), FALSE)

-----------------------------------------------------------------------------
(* x/wasm/keeper/gas_register.go: the prices of instantiation, compilation *)
(* and replies.  A length (Go int) is a natural number; a reply is         *)
(* [Err |-> text, Ok |-> <<>> for nil or <<[Events, Data]>>].              *)

\* InstantiateContractCost that charges one gas per message byte on top
InstantiateContractCost_bylen(g, pinned, msgLen) ==
    IF pinned THEN GasResult(FromNat(0), FALSE)
    ELSE GasResult(Add64(g.instanceCost, FromNat(msgLen)), FALSE)

\* GasRegister.InstantiateContractCost
InstantiateContractCost(g, pinned, msgLen) ==
    IF pinned THEN GasResult(FromNat(0), FALSE)
    ELSE GasResult(g.instanceCost, FALSE)

\* GasRegister.NewContractInstanceCost
NewContractInstanceCost(g, pinned, msgLen, labelLength) ==
    InstantiateContractCost(g, pinned, msgLen)

\* GasRegister.CompileCost: the uint64 product
CompileCost(g, byteLength, sourceCodeUrlLen, builderLen) ==
    GasResult(Mul64(g.compileCost, FromNat(byteLength)), FALSE)

\* GasRegister.ReplyCost
ReplyCost(g, pinned, reply) ==
    \* the loop of ReplyCost over the events: eventGas += g.EventCosts(e.Attributes),
    \* and msgLen += len(e.Type); a panic of EventCosts ends the call
    LET RECURSIVE ReplyEvents(_, _, _, _)
        ReplyEvents(g0, events0, eventGas0, msgLen0) ==
            IF Len(events0) = 0 THEN [eventGas |-> eventGas0, msgLen |-> msgLen0, panic |-> FALSE]
            ELSE LET c == EventCosts(g0, events0[1].Attributes) IN
                 IF c.panic THEN [eventGas |-> eventGas0, msgLen |-> msgLen0, panic |-> TRUE]
                 ELSE ReplyEvents(g0, Tail(events0), Add64(eventGas0, c.ret),
                                  msgLen0 + Len(events0[1].Type))
    IN
    LET msgLen0 == Len(reply.Result.Err)
        loop == IF reply.Result.Ok # <<>>
                THEN ReplyEvents(g, reply.Result.Ok[1].Events, FromNat(0),
                                 msgLen0 + Len(reply.Result.Ok[1].Data))
                ELSE [eventGas |-> FromNat(0), msgLen |-> msgLen0, panic |-> FALSE]
    IN  IF loop.panic THEN GasResult(FromNat(0), TRUE)
        ELSE GasResult(Add64(loop.eventGas,
                             InstantiateContractCost(g, pinned, loop.msgLen).ret),
                       FALSE)

-----------------------------------------------------------------------------
(* Specification of the gas register: one method call per run, on a        *)
(* register built by NewGasRegister                                        *)

\* how far above each boundary value the gas amounts are drawn
GasSpread == 1
\* attributes per event
MaxAttrs == 2

\* attributes with a key of one byte and a value of no or two bytes
Attributes == {[Key |-> <<107>>, Value |-> v] : v \in {<<>>, <<118, 118>>}}
EventLists == UNION {[1..n -> Attributes] : n \in 0..MaxAttrs}

\* of: the ledger gas a converted amount was made from, <<>> when none
GasCall(op, source, evts, r, of) ==
    [op |-> op, source |-> source, evts |-> evts, ret |-> r.ret, panic |-> r.panic,
     of |-> of]

NoGasCall == GasCall("none", FromNat(0), <<>>, GasResult(FromNat(0), FALSE), <<>>)

\* ToWasmVMGas(source)
CallToWasmVMGas(source) ==
    /\ gasRet = NoGasCall
    /\ gasRet' = GasCall("ToWasmVMGas", source, <<>>, ToWasmVMGas(register, source), <<>>)
    /\ UNCHANGED <<register, apiCosts, apiDefaults>>
    /\ UNCHANGED <<codecVars, portVars, gameVars, pipeVars, propVars>>

\* FromWasmVMGas(source)
CallFromWasmVMGas(source) ==
    /\ gasRet = NoGasCall
    /\ gasRet' = GasCall("FromWasmVMGas", source, <<>>,
                         FromWasmVMGas(register, source), <<>>)
    /\ UNCHANGED <<register, apiCosts, apiDefaults>>
    /\ UNCHANGED <<codecVars, portVars, gameVars, pipeVars, propVars>>

\* FromWasmVMGas of what ToWasmVMGas just returned
ConvertBack ==
    /\ gasRet.op = "ToWasmVMGas"
    /\ gasRet' = GasCall("FromWasmVMGas", gasRet.ret, <<>>,
                         FromWasmVMGas(register, gasRet.ret), <<gasRet.source>>)
    /\ UNCHANGED <<register, apiCosts, apiDefaults>>
    /\ UNCHANGED <<codecVars, portVars, gameVars, pipeVars, propVars>>

\* EventCosts(evts)
CallEventCosts(evts) ==
    /\ gasRet = NoGasCall
    /\ gasRet' = GasCall("EventCosts", FromNat(0), evts, EventCosts(register, evts), <<>>)
    /\ UNCHANGED <<register, apiCosts, apiDefaults>>
    /\ UNCHANGED <<codecVars, portVars, gameVars, pipeVars, propVars>>

GasNext ==
    LET GasSet ==
            \* 0, 99, 2^32-1, 2^63-1 and 2^64-1, each plus 0..GasSpread (mod 2^64)
            LET GasBases == {FromNat(0), FromNat(99), LowOnes(32), LowOnes(63), LowOnes(64)}
            IN  {Add64(b, FromNat(d)) : b \in GasBases, d \in 0..GasSpread}
    IN
    \/ \E source \in GasSet : CallToWasmVMGas(source)
    \/ \E source \in GasSet : CallFromWasmVMGas(source)
    \/ ConvertBack
    \/ \E evts \in EventLists : CallEventCosts(evts)

-----------------------------------------------------------------------------
(* Specification of the prices: one method call per run, on a register     *)
(* built by NewGasRegister                                                 *)

\* events per reply
MaxEvents == 2
\* bytes of a message, a label, a URL or a builder tag
MaxLen == 1

\* lengths of wasm code: none, a few bytes, and 1 MiB
CodeLengths == {0, 1, 2, 3, 1048576}

\* WithApiCosts(human, canonical): assigns the two package variables
WithApiCosts(human, canonical) == [costHumanize |-> human, costCanonical |-> canonical]

\* WithCosts that stores the attribute cost as the cost per attribute
WithCosts_percount(g, d, compile, instance, multiplier, attribute) ==
    [gasRegister |-> [g EXCEPT !.compileCost = compile,
                               !.instanceCost = instance,
                               !.gasMultiplier = multiplier,
                               !.eventPerAttributeCost = attribute],
     api |-> WithApiCosts(Mul64(FromNat(d.human), multiplier),
                          Mul64(FromNat(d.canonical), multiplier))]

\* WithCosts(compile, instance, multiplier, attribute) applied to a keeper with
\* gas register g, d being DefaultGasCostHumanAddress and
\* DefaultGasCostCanonicalAddress: the register and the API costs it leaves;
\* the products are uint64 products
WithCosts(g, d, compile, instance, multiplier, attribute) ==
    [gasRegister |-> [g EXCEPT !.compileCost = compile,
                               !.instanceCost = instance,
                               !.gasMultiplier = multiplier,
                               !.eventAttributeDataCost = attribute],
     api |-> WithApiCosts(Mul64(FromNat(d.human), multiplier),
                          Mul64(FromNat(d.canonical), multiplier))]

CostCall(op, args, r) == [op |-> op, args |-> args, ret |-> r.ret, panic |-> r.panic]

\* InstantiateContractCost(pinned, msgLen)
CallInstantiateContractCost(pinned, msgLen) ==
    /\ gasRet = NoGasCall
    /\ gasRet' = CostCall("InstantiateContractCost",
                          [pinned |-> pinned, msgLen |-> msgLen],
                          InstantiateContractCost(register, pinned, msgLen))
    /\ UNCHANGED <<register, apiCosts, apiDefaults>>
    /\ UNCHANGED <<codecVars, portVars, gameVars, pipeVars, propVars>>

\* NewContractInstanceCost(pinned, msgLen, labelLength)
CallNewContractInstanceCost(pinned, msgLen, labelLength) ==
    /\ gasRet = NoGasCall
    /\ gasRet' = CostCall("NewContractInstanceCost",
                          [pinned |-> pinned, msgLen |-> msgLen,
                           labelLength |-> labelLength],
                          NewContractInstanceCost(register, pinned, msgLen, labelLength))
    /\ UNCHANGED <<register, apiCosts, apiDefaults>>
    /\ UNCHANGED <<codecVars, portVars, gameVars, pipeVars, propVars>>

\* CompileCost(byteLength, sourceCodeUrlLen, builderLen)
CallCompileCost(byteLength, sourceCodeUrlLen, builderLen) ==
    /\ gasRet = NoGasCall
    /\ gasRet' = CostCall("CompileCost",
                          [byteLength |-> byteLength,
                           sourceCodeUrlLen |-> sourceCodeUrlLen,
                           builderLen |-> builderLen],
                          CompileCost(register, byteLength, sourceCodeUrlLen, builderLen))
    /\ UNCHANGED <<register, apiCosts, apiDefaults>>
    /\ UNCHANGED <<codecVars, portVars, gameVars, pipeVars, propVars>>

\* ReplyCost(pinned, reply)
CallReplyCost(pinned, reply) ==
    /\ gasRet = NoGasCall
    /\ gasRet' = CostCall("ReplyCost", [pinned |-> pinned, reply |-> reply],
                          ReplyCost(register, pinned, reply))
    /\ UNCHANGED <<register, apiCosts, apiDefaults>>
    /\ UNCHANGED <<codecVars, portVars, gameVars, pipeVars, propVars>>

\* the option WithCosts is applied to the keeper before any method is called
ApplyWithCosts(compile, instance, multiplier, attribute) ==
    /\ gasRet = NoGasCall
    /\ \E k \in {WithCosts(register, apiDefaults, compile, instance, multiplier, attribute)} :
        /\ register' = k.gasRegister
        /\ apiCosts' = k.api
    /\ gasRet' = CostCall("WithCosts",
                          [compile |-> compile, instance |-> instance,
                           multiplier |-> multiplier, attribute |-> attribute,
                           keeper |-> register],
                          GasResult(FromNat(0), FALSE))
    /\ UNCHANGED apiDefaults
    /\ UNCHANGED <<codecVars, portVars, gameVars, pipeVars, propVars>>

CostNext ==
    \* lengths of messages, labels, URLs and builder tags
    LET Lengths == 0..MaxLen
    IN
    \* replies: an error, and results with up to MaxEvents events
    LET Replies ==
            \* events without, with one and with two attributes
            LET ReplyEventSet ==
                    {[Type |-> <<116>>, Attributes |-> <<>>],
                     [Type |-> <<116>>, Attributes |-> <<[Key |-> <<107>>, Value |-> <<118>>]>>],
                     [Type |-> <<116, 116>>,
                      Attributes |-> <<[Key |-> <<107>>, Value |-> <<>>],
                                       [Key |-> <<107>>, Value |-> <<118>>]>>]}
            IN
            {[Result |-> [Err |-> <<101>>, Ok |-> <<>>]]}
                \cup {[Result |-> [Err |-> <<>>, Ok |-> <<[Events |-> es, Data |-> d]>>]] :
                         es \in UNION {[1..n -> ReplyEventSet] : n \in 0..MaxEvents},
                         d \in {<<>>, <<100>>}}
    IN
    \/ \E pinned \in BOOLEAN, msgLen \in Lengths :
           CallInstantiateContractCost(pinned, msgLen)
    \/ \E pinned \in BOOLEAN, msgLen \in Lengths, labelLength \in Lengths :
           CallNewContractInstanceCost(pinned, msgLen, labelLength)
    \/ \E byteLength \in CodeLengths, urlLen \in Lengths, builderLen \in Lengths :
           CallCompileCost(byteLength, urlLen, builderLen)
    \/ \E pinned \in BOOLEAN, reply \in Replies : CallReplyCost(pinned, reply)
    \/ \E compile \in {FromNat(3), LowOnes(64)}, instance \in {FromNat(7)},
          multiplier \in {FromNat(1), FromNat(DefaultGasMultiplier), Shl(FromNat(1), 63)},
          attribute \in {FromNat(0), FromNat(5)} :
           ApplyWithCosts(compile, instance, multiplier, attribute)

-----------------------------------------------------------------------------
(* The sub-message dispatch pipeline.  Its code (the message handler chain *)
(* of the keeper) is not part of the sources at hand; the pipeline follows *)
(* spec section 4.5: an ordered list of typed messages, each matched       *)
(* against a chain of handlers (first match wins), processed one after the *)
(* other on the state the previous one left, the first failure ending the  *)
(* list.  The ledger rolls a failed invocation back (spec section 6).      *)

NoDispatch == [op |-> "none"]

\* the typed messages: a transfer, an outbound packet, a contract call that
\* returns messages of its own, and a type no handler knows
BankMsg(amount) == [type |-> "bank", amount |-> amount]
IbcMsg == [type |-> "ibc"]
WasmMsg(msgs) == [type |-> "wasm", msgs |-> msgs]
CustomMsg == [type |-> "custom"]

\* the chain of handlers and the message types each one takes
MessageHandlerChain == <<"sdk", "ibc">>

\* a pipeline that goes on with the next message whatever the last one did
Proceeds_always(r) == TRUE

\* the pipeline goes on after a message only when it succeeded
Proceeds(r) == r.err = ""

RECURSIVE DispatchMsg(_, _, _, _)
RECURSIVE DispatchMessages(_, _, _, _)

\* the pipeline: the messages in order, each on the ledger the one before
\* left; the first error ends it and is returned
DispatchMessages(ld, msgs, depth, log) ==
    IF Len(msgs) = 0 THEN [err |-> "", ledger |-> ld, log |-> log]
    ELSE LET r == DispatchMsg(ld, msgs[1], depth, log) IN
         IF ~Proceeds(r) THEN r
         ELSE DispatchMessages(r.ledger, Tail(msgs), depth, r.log)

\* one message through the chain of handlers
DispatchMsg(ld, msg, depth, log) ==
    LET Takes(handler0, msg0) ==
            \/ handler0 = "sdk" /\ msg0.type \in {"bank", "wasm"}
            \/ handler0 = "ibc" /\ msg0.type = "ibc"
    IN
    \* the first handler of the chain that takes the message, 0 when none does
    LET HandlerOf(msg0) ==
            IF \E h \in DOMAIN MessageHandlerChain : Takes(MessageHandlerChain[h], msg0)
            THEN CHOOSE h \in DOMAIN MessageHandlerChain :
                    /\ Takes(MessageHandlerChain[h], msg0)
                    /\ \A g \in 1..(h-1) : ~Takes(MessageHandlerChain[g], msg0)
            ELSE 0
    IN
    \* what is logged of one message: the handler that ran (0: none), the nesting
    \* depth, the ledger it saw, the ledger it left and its error
    LET Handled(msg0, handler0, depth0, seen0, after0, err0) ==
            [msg |-> msg0, handler |-> handler0, depth |-> depth0, seen |-> seen0,
             after |-> after0, err |-> err0]
    IN
    LET h == HandlerOf(msg)
        Done(after, err, lg) ==
            [err |-> err, ledger |-> after,
             log |-> Append(lg, Handled(msg, h, depth, ld, after, err))]
    IN  IF h = 0 THEN Done(ld, "UnrecognizedMessageType", log)
        ELSE IF msg.type = "bank"
        THEN IF ld.balance < msg.amount THEN Done(ld, "insufficient funds", log)
             ELSE Done([ld EXCEPT !.balance = @ - msg.amount], "", log)
        ELSE IF msg.type = "ibc"
        THEN IF ~ld.channelOpen THEN Done(ld, "channel not open", log)
             ELSE Done([ld EXCEPT !.sent = @ + 1], "", log)
        ELSE LET sub == DispatchMessages([ld EXCEPT !.calls = @ + 1], msg.msgs,
                                         depth + 1, log)
             IN  Done(sub.ledger, sub.err, sub.log)

-----------------------------------------------------------------------------
(* Specification of the pipeline: one invocation per run dispatches a list *)
(* of messages                                                             *)

\* messages per list
MaxMsgs == 3
\* the balance at the start
MaxBalance == 1

\* an invocation returns msgs: they are dispatched, and a failure leaves the
\* ledger as it was before the invocation
DispatchCall(msgs) ==
    /\ pipeRet = NoDispatch
    /\ \E r \in {DispatchMessages(ledger, msgs, 0, <<>>)} :
        /\ pipeRet' = [op |-> "dispatch", msgs |-> msgs, pre |-> ledger,
                       err |-> r.err, log |-> r.log, after |-> r.ledger]
        /\ ledger' = IF r.err = "" THEN r.ledger ELSE ledger
    /\ UNCHANGED <<codecVars, portVars, gameVars, gasVars, propVars>>

PipeNext ==
    LET MsgLists ==
            \* the messages of an invocation: transfers of 1, a packet, a message of an
            \* unknown type, and contract calls that return one message or none
            LET PipelineMsgs ==
                    {BankMsg(1), IbcMsg, CustomMsg, WasmMsg(<<>>), WasmMsg(<<BankMsg(1)>>),
                     WasmMsg(<<CustomMsg>>)}
            IN  UNION {[1..n -> PipelineMsgs] : n \in 0..MaxMsgs}
    IN  \E msgs \in MsgLists : DispatchCall(msgs)

-----------------------------------------------------------------------------
(* Governance proposals: WasmProposal and the five proposal types that     *)
(* embed it.  An error is its message, "" is nil.  The fields checked by   *)
(* functions outside these files (sdk.VerifyAddressFormat,                 *)
(* validateWasmCode, validateSourceURL, validateBuilder, validateLabel,    *)
(* Coins.IsValid) are "ok" when the function accepts them and "bad" when   *)
(* it returns an error; an address of length 0 is "".                      *)

\* govtypes.MaxTitleLength and govtypes.MaxDescriptionLength, scaled down
MaxTitleLength == 3
MaxDescriptionLength == 2

NoValidation == [op |-> "none"]

\* WasmProposal.ValidateBasic that tests the title without trimming it
WasmProposalValidateBasic_untrimmed(p) ==
    IF Len(p.Title) = 0 THEN "proposal title cannot be blank"
    ELSE IF Len(p.Title) > MaxTitleLength THEN "proposal title is longer than max length"
    ELSE IF Len(p.Description) = 0 THEN "proposal description cannot be blank"
    ELSE IF Len(p.Description) > MaxDescriptionLength
    THEN "proposal description is longer than max length"
    ELSE ""

\* WasmProposal.ValidateBasic
WasmProposalValidateBasic(p) ==
    \* strings.TrimSpace: s without its leading and trailing white space
    LET TrimSpace(s) ==
            LET IsSpace(c) == c \in {9, 10, 11, 12, 13, 32}
                Inked == {i \in DOMAIN s : ~IsSpace(s[i])}
            IN  IF Inked = {} THEN <<>>
                ELSE SubSeq(s, CHOOSE i \in Inked : \A j \in Inked : i <= j,
                               CHOOSE i \in Inked : \A j \in Inked : i >= j)
    IN  IF Len(TrimSpace(p.Title)) = 0 THEN "proposal title cannot be blank"
        ELSE IF Len(p.Title) > MaxTitleLength THEN "proposal title is longer than max length"
        ELSE IF Len(p.Description) = 0 THEN "proposal description cannot be blank"
        ELSE IF Len(p.Description) > MaxDescriptionLength
        THEN "proposal description is longer than max length"
        ELSE ""

\* ValidateBasic of StoreCodeProposal, InstantiateContractProposal,
\* MigrateContractProposal, UpdateAdminContractProposal and
\* ClearAdminContractProposal
ValidateBasic(p) ==
    LET err == WasmProposalValidateBasic(p) IN
    IF err # "" THEN err
    ELSE IF p.type = "StoreCode"
    THEN IF p.Creator # "ok" THEN "creator"
         ELSE IF p.WASMByteCode # "ok" THEN "code bytes"
         ELSE IF p.Source # "ok" THEN "source"
         ELSE IF p.Builder # "ok" THEN "builder"
         ELSE ""
    ELSE IF p.type = "InstantiateContract"
    THEN IF p.Creator # "ok" THEN "creator is required"
         ELSE IF p.Code = 0 THEN "code_id is required"
         ELSE IF p.Label # "ok" THEN "label"
         ELSE IF p.InitFunds # "ok" THEN "invalid coins"
         ELSE IF p.Admin # "" /\ p.Admin # "ok" THEN "admin"
         ELSE ""
    ELSE IF p.type = "MigrateContract"
    THEN IF p.Code = 0 THEN "code_id is required"
         ELSE IF p.Contract # "ok" THEN "contract"
         ELSE ""
    ELSE IF p.type = "UpdateAdmin"
    THEN IF p.Contract # "ok" THEN "contract"
         ELSE IF p.NewAdmin # "ok" THEN "new admin"
         ELSE ""
    ELSE IF p.Contract # "ok" THEN "contract"
         ELSE ""

\* p.ValidateBasic() of a proposal p
CallValidateBasic(p) ==
    /\ propRet = NoValidation
    /\ propRet' = [op |-> "ValidateBasic", p |-> p, err |-> ValidateBasic(p)]
    /\ UNCHANGED <<codecVars, portVars, gameVars, gasVars, pipeVars>>

PropNext ==
    LET Proposals ==
            \* titles of up to MaxTitleLength + 1 characters " " and "a", a tab, and
            \* descriptions " " and of up to MaxDescriptionLength + 1 characters "d"
            LET Titles == UNION {[1..n -> {32, 97}] : n \in 0..(MaxTitleLength + 1)}
                              \cup {<<9>>, <<9, 97, 10>>}
                Descriptions == {[i \in 1..n |-> 100] : n \in 0..(MaxDescriptionLength + 1)}
                                    \cup {<<32>>}
                Checked == {"ok", "bad"}
                Address == {"", "ok", "bad"}
            IN  [type : {"StoreCode"}, Title : Titles, Description : Descriptions,
                 Creator : Address, WASMByteCode : Checked, Source : Checked,
                 Builder : Checked]
                \cup [type : {"InstantiateContract"}, Title : Titles,
                      Description : Descriptions, Creator : Checked, Admin : Address,
                      Code : {0, 1}, Label : Checked, InitFunds : Checked]
                \cup [type : {"MigrateContract"}, Title : Titles,
                      Description : Descriptions, Contract : Address, Code : {0, 1}]
                \cup [type : {"UpdateAdmin"}, Title : Titles, Description : Descriptions,
                      NewAdmin : Address, Contract : Address]
                \cup [type : {"ClearAdmin"}, Title : Titles, Description : Descriptions,
                      Contract : Address]
    IN  \E p \in Proposals : CallValidateBasic(p)

-----------------------------------------------------------------------------
(* Initial states of the parts a specification leaves alone                *)

CodecIdle ==
    /\ codeID = FromNat(0)
    /\ instanceID = FromNat(0)
    /\ portID = NoString
    /\ resolved = NoResult

PortIdle ==
    /\ portKeeperNil = TRUE
    /\ boundPorts = {}
    /\ heldCaps = {}
    /\ ensured = [q \in PortPairs |-> NoString]
    /\ ensureBinds = [p \in PortNames |-> 0]
    /\ bindOk = [p \in PortNames |-> 0]
    /\ portRet = NoCall
    /\ portCalls = 0
    /\ claims = {}

GameIdle ==
    /\ deployed = {}
    /\ store = [a \in Actors |-> EmptyStore]
    /\ execCalls = [a \in Actors |-> 0]
    /\ chanState = [a \in Actors |-> [c \in GameChannels |-> "UNINITIALIZED"]]
    /\ packets = <<>>
    /\ foreignRecvs = 0
    /\ lastCall = Call("none", ping, NoInput, EmptyStore, <<>>, <<>>, FALSE, FALSE)

GasIdle ==
    LET DefaultGasRegister ==
            [instanceCost |-> FromNat(DefaultInstanceCost),
             compileCost |-> FromNat(DefaultCompileCost),
             gasMultiplier |-> FromNat(DefaultGasMultiplier),
             eventPerAttributeCost |-> FromNat(DefaultPerAttributeCost),
             eventAttributeDataCost |-> FromNat(DefaultEventAttributeDataCost),
             eventAttributeDataFreeTier |-> DefaultEventAttributeDataFreeTier]
    IN
    /\ register = DefaultGasRegister
    /\ gasRet = NoGasCall
    /\ apiDefaults = [human |-> 0, canonical |-> 0]
    /\ apiCosts = WithApiCosts(FromNat(0), FromNat(0))

PipeIdle ==
    \* the ledger state the handlers work on: a balance for transfers, the
    \* packets sent, the contract calls made, and whether the channel is open
    LET EmptyLedger == [balance |-> 0, sent |-> 0, calls |-> 0, channelOpen |-> FALSE]
    IN
    /\ ledger = EmptyLedger
    /\ pipeRet = NoDispatch

PropIdle ==
    /\ propRet = NoValidation

CodecInit ==
    LET CodecStart ==
            /\ codeID \in IdSet
            /\ instanceID \in IdSet
            /\ portID = NoString
            /\ resolved = NoResult
    IN  CodecStart /\ PortIdle /\ GameIdle /\ GasIdle /\ PipeIdle /\ PropIdle
SpecCodec == CodecInit /\ [][CodecNext]_vars

PortInit ==
    LET PortStart ==
            /\ portKeeperNil \in BOOLEAN
            /\ boundPorts = {}
            /\ heldCaps = {}
            /\ ensured = [q \in PortPairs |-> NoString]
            /\ ensureBinds = [p \in PortNames |-> 0]
            /\ bindOk = [p \in PortNames |-> 0]
            /\ portRet = NoCall
            /\ portCalls = 0
            /\ claims = {}
    IN  PortStart /\ CodecIdle /\ GameIdle /\ GasIdle /\ PipeIdle /\ PropIdle
SpecPort == PortInit /\ [][PortNext]_vars

GameInit ==
    LET GameStart ==
            /\ deployed = Actors
            /\ store = [a \in Actors |-> EmptyStore]
            /\ execCalls = [a \in Actors |-> 0]
            /\ chanState = [a \in Actors |-> [c \in GameChannels |-> "UNINITIALIZED"]]
            /\ packets = <<>>
            /\ foreignRecvs = 0
            /\ lastCall = Call("none", ping, NoInput, EmptyStore, <<>>, <<>>, FALSE, FALSE)
    IN  GameStart /\ CodecIdle /\ PortIdle /\ GasIdle /\ PipeIdle /\ PropIdle
SpecGame == GameInit /\ [][GameNext]_vars

PlayerInit ==
    LET PlayerStart ==
            /\ \E a \in Actors : deployed = {a}
            /\ store = [a \in Actors |-> EmptyStore]
            /\ execCalls = [a \in Actors |-> 0]
            /\ chanState = [a \in Actors |-> [c \in GameChannels |-> "UNINITIALIZED"]]
            /\ packets = <<>>
            /\ foreignRecvs = 0
            /\ lastCall = Call("none", ping, NoInput, EmptyStore, <<>>, <<>>, FALSE, FALSE)
    IN  PlayerStart /\ CodecIdle /\ PortIdle /\ GasIdle /\ PipeIdle /\ PropIdle
SpecPlayer == PlayerInit /\ [][PlayerNext]_vars

ResolveInit ==
    \* nine bytes 0xff, the start of the longest varints
    LET NineFF == [i \in 1..9 |-> 255]
    IN
    LET ResolveStart ==
            LET PortStrings ==
                    \* payload text: the encoded payload bytes, a dangling character "A" and
                    \* text outside the alphabet "!!"
                    LET PayloadTexts ==
                            \* payload bytes: every sequence of up to MaxPayload bytes of 0, 1, 128 and
                            \* 255, the varint of 2^64-1, and varints that overflow in the tenth and
                            \* in the eleventh byte
                            LET PayloadBytes ==
                                    UNION {[1..n -> {0, 1, 128, 255}] : n \in 0..MaxPayload}
                                        \cup {NineFF \o <<1>>, NineFF \o <<2>>, NineFF \o <<255, 1>>}
                            IN  {EncodeToString(b) : b \in PayloadBytes} \cup {<<65>>, <<33, 33>>}
                    IN
                    \* "", "was", "wasn", "WASM", "xwasm" and "wasm"
                    LET PortHeads ==
                            {<<>>, <<119, 97, 115>>, <<119, 97, 115, 110>>, <<87, 65, 83, 77>>,
                             <<120, 119, 97, 115, 109>>, portIDPrefix}
                    IN  {h \o t : h \in PortHeads, t \in PayloadTexts}
            IN
            /\ codeID = FromNat(0)
            /\ instanceID = FromNat(0)
            /\ portID \in PortStrings
            /\ resolved = NoResult
    IN  ResolveStart /\ PortIdle /\ GameIdle /\ GasIdle /\ PipeIdle /\ PropIdle
SpecResolve == ResolveInit /\ [][ResolveNext]_vars

GasInit ==
    LET GasStart ==
            LET Registers ==
                    \* free tiers: byte counts
                    LET FreeTiers == {0, 4, DefaultEventAttributeDataFreeTier}
                    IN
                    LET CountCosts == {FromNat(0), FromNat(DefaultPerAttributeCost), LowOnes(64)}
                    IN
                    LET DataCosts == {FromNat(0), FromNat(DefaultEventAttributeDataCost), Shl(FromNat(1), 63),
                                      LowOnes(64)}
                    IN
                    \* multipliers and costs handed to NewGasRegister
                    LET Multipliers == {FromNat(0), FromNat(1), FromNat(DefaultGasMultiplier), Shl(FromNat(1), 32)}
                    IN
                    {NewGasRegister(FromNat(DefaultInstanceCost), FromNat(DefaultCompileCost), m,
                                    FromNat(DefaultPerAttributeCost),
                                    FromNat(DefaultEventAttributeDataCost),
                                    DefaultEventAttributeDataFreeTier) : m \in Multipliers}
                    \cup {NewGasRegister(FromNat(DefaultInstanceCost), FromNat(DefaultCompileCost),
                                         FromNat(DefaultGasMultiplier), cc, dc, ft) :
                              cc \in CountCosts, dc \in DataCosts, ft \in FreeTiers}
            IN
            /\ register \in Registers
            /\ gasRet = NoGasCall
            /\ apiDefaults = [human |-> 0, canonical |-> 0]
            /\ apiCosts = WithApiCosts(FromNat(0), FromNat(0))
    IN  GasStart /\ CodecIdle /\ PortIdle /\ GameIdle /\ PipeIdle /\ PropIdle
SpecGas == GasInit /\ [][GasNext]_vars

CostInit ==
    LET CostStart ==
            LET CostRegisters ==
                    LET AttributeCosts == {FromNat(DefaultPerAttributeCost), Shl(FromNat(1), 63)}
                    IN
                    LET CompileCosts == {FromNat(0), FromNat(DefaultCompileCost), Shl(FromNat(1), 63)}
                    IN
                    \* costs handed to NewGasRegister
                    LET InstanceCosts == {FromNat(0), FromNat(DefaultInstanceCost), LowOnes(64)}
                    IN
                    {NewGasRegister(ic, cc, FromNat(DefaultGasMultiplier), ac,
                                    FromNat(DefaultEventAttributeDataCost),
                                    DefaultEventAttributeDataFreeTier) :
                        ic \in InstanceCosts, cc \in CompileCosts, ac \in AttributeCosts}
            IN
            /\ register \in CostRegisters
            /\ gasRet = NoGasCall
            \* DefaultGasCostHumanAddress and DefaultGasCostCanonicalAddress are
            \* declared outside these files: any value
            /\ apiDefaults \in [human : {1, 5}, canonical : {4}]
            \* costHumanize and costCanonical before the options are applied
            /\ apiCosts \in {WithApiCosts(FromNat(0), FromNat(0)),
                             WithApiCosts(FromNat(7), FromNat(7))}
    IN  CostStart /\ CodecIdle /\ PortIdle /\ GameIdle /\ PipeIdle /\ PropIdle
SpecCosts == CostInit /\ [][CostNext]_vars

StoreInit ==
    LET StoreStart ==
            LET StoreChannels == {"channel-0", "channel-1"}
            IN
            /\ deployed = {ping}
            /\ store = [a \in Actors |-> EmptyStore]
            /\ execCalls = [a \in Actors |-> 0]
            /\ chanState = [a \in Actors |-> [c \in StoreChannels |-> "UNINITIALIZED"]]
            /\ packets = <<>>
            /\ foreignRecvs = 0
            /\ lastCall = Call("none", ping, NoInput, EmptyStore, <<>>, <<>>, FALSE, FALSE)
    IN  StoreStart /\ CodecIdle /\ PortIdle /\ GasIdle /\ PipeIdle /\ PropIdle
SpecStore == StoreInit /\ [][StoreNext]_vars

PipeInit ==
    LET PipeStart ==
            /\ ledger \in [balance : 0..MaxBalance, sent : {0}, calls : {0},
                            channelOpen : BOOLEAN]
            /\ pipeRet = NoDispatch
    IN  PipeStart /\ CodecIdle /\ PortIdle /\ GameIdle /\ GasIdle /\ PropIdle
SpecPipeline == PipeInit /\ [][PipeNext]_vars

PropInit == PropIdle /\ CodecIdle /\ PortIdle /\ GameIdle /\ GasIdle /\ PipeIdle
SpecProposals == PropInit /\ [][PropNext]_vars

OwnersInit ==
    LET OwnersStart ==
            /\ portKeeperNil = FALSE
            /\ boundPorts = {}
            /\ heldCaps = {}
            /\ ensured = [q \in PortPairs |-> NoString]
            /\ ensureBinds = [p \in PortNames |-> 0]
            /\ bindOk = [p \in PortNames |-> 0]
            /\ portRet = NoCall
            /\ portCalls = 0
            /\ claims = {}
    IN  OwnersStart /\ CodecIdle /\ GameIdle /\ GasIdle /\ PipeIdle /\ PropIdle
SpecOwners == OwnersInit /\ [][OwnersNext]_vars

-----------------------------------------------------------------------------
\* C1: for every (codeID, instanceID) with both values <= 2^32-1,
\* ContractFromPortID(PortIDForContract(codeID, instanceID)) succeeds and
\* returns exactly that (codeID, instanceID).
C1_RoundTrip ==
    LET FitsIn32(x) == ~GeqPow2(x, 32)
    IN
    (resolved # NoResult /\ FitsIn32(codeID) /\ FitsIn32(instanceID))
        => /\ resolved.ok
           /\ resolved.codeID = codeID
           /\ resolved.instanceID = instanceID

\* the round trip of the largest pair in range, (2^32-1, 2^32-1), has run
C1_Witness ==
    /\ resolved # NoResult
    /\ resolved.ok
    /\ codeID = LowOnes(32)
    /\ instanceID = LowOnes(32)

\* C2: ensureIbcPort called again with a (codeID, instanceID) for which an
\* earlier call succeeded returns no error and the same port id as that call.
C2_EnsureTwice ==
    (portRet.op = "ensure" /\ portRet.prior # NoString)
        => /\ portRet.err = ""
           /\ portRet.portID = portRet.prior

\* a second ensureIbcPort for the same pair has run with a port keeper set,
\* the capability being held since the first call
C2_Witness ==
    /\ portRet.op = "ensure"
    /\ portRet.prior # NoString
    /\ ~portKeeperNil
    /\ portRet.held
    /\ ensureBinds[portRet.portID] = 1

\* C3: ensureIbcPort is check-then-bind: it reaches BindPort + ClaimCapability
\* for a port only when the keeper does not hold that port's capability, so
\* it does so at most once per port name; a bind for a name whose capability
\* the keeper already holds fails, and no name is bound successfully twice.
C3_CheckThenBind ==
    /\ (portRet.op = "ensure" /\ portRet.bind) => ~portRet.held
    /\ \A p \in PortNames : ensureBinds[p] <= 1 /\ bindOk[p] <= 1
    /\ (portRet.op \in {"ensure", "bind"} /\ portRet.bind /\ portRet.held)
           => portRet.err # ""

\* a direct bindIbcPort for a port that an earlier ensureIbcPort bound has
\* run, and failed
C3_Witness ==
    /\ portRet.op = "bind"
    /\ portRet.bind
    /\ portRet.held
    /\ portRet.err # ""
    /\ ensureBinds[portRet.portID] = 1

-----------------------------------------------------------------------------
(* The players' callbacks                                                  *)

\* the value a store holds under a counter key, 0 when the key is absent
CounterOf(st, key) == BigEndianToUint64(st[key])

\* the payload does not parse as a hit
Malformed(data) == Len(UnmarshalHit(data).err) # 0

\* C4: every packet a contract sends is resolved by exactly one of its
\* acknowledgement and its timeout: once a callback has run for it the packet
\* is ACKNOWLEDGED or TIMED_OUT, at most one of the two callbacks has run,
\* and no packet is sent twice.
C4_ResolvedOnce ==
    \A n \in 1..Len(packets) :
        /\ packets[n].status \in {"SENT", "ACKNOWLEDGED", "TIMED_OUT"}
        /\ packets[n].acks + (IF packets[n].timeoutFired THEN 1 ELSE 0) <= 1
        /\ packets[n].acks = 1 => packets[n].status = "ACKNOWLEDGED"
        /\ packets[n].timeoutFired => packets[n].status = "TIMED_OUT"
        /\ \A m \in 1..Len(packets) :
              (m # n /\ packets[m].from = packets[n].from
                     /\ packets[m].packet.SourceChannel = packets[n].packet.SourceChannel)
                  => packets[m].packet.Sequence # packets[n].packet.Sequence

\* C5: every OnIBCPacketReceive returns no error and a response that
\* carries one acknowledgement.
C5_OneAck ==
    lastCall.op = "receive"
        => /\ lastCall.err = <<>>
           /\ ~lastCall.panic
           /\ Len(lastCall.resp) = 1
           /\ Len(lastCall.resp[1].Acknowledgement) = 1

\* a receive on the normal path has run: a success acknowledgement and one
\* outbound message
C5_Witness ==
    /\ lastCall.op = "receive"
    /\ Len(lastCall.resp) = 1
    /\ Len(lastCall.resp[1].Messages) = 1
    /\ Len(lastCall.resp[1].Acknowledgement[1].success) = 1

\* C6 as stated: every OnIBCPacketAcknowledgement adds one to confBalls,
\* whatever the acknowledgement holds.
C6_AlwaysConfirms ==
    lastCall.op = "ack"
        => CounterOf(store[lastCall.actor], "confBalls")
               = CounterOf(lastCall.pre, "confBalls") + 1

\* C6 amended: an OnIBCPacketAcknowledgement whose original payload and
\* acknowledgement both decode (the acknowledgement with a success, an
\* error, or neither member) returns no error and adds exactly one to
\* confBalls; one where either does not decode returns an error and leaves
\* the store as it was.
C6_ConfirmsDecoded ==
    lastCall.op = "ack"
        => IF /\ ~Malformed(lastCall.input.OriginalPacket.Data)
              /\ Len(UnmarshalAck(lastCall.input.Acknowledgement).err) = 0
           THEN /\ lastCall.err = <<>>
                /\ CounterOf(store[lastCall.actor], "confBalls")
                       = CounterOf(lastCall.pre, "confBalls") + 1
           ELSE /\ lastCall.err # <<>>
                /\ store[lastCall.actor] = lastCall.pre

\* an application-error acknowledgement has been confirmed
C6_Witness ==
    /\ lastCall.op = "ack"
    /\ lastCall.input.Acknowledgement.kind = "object"
    /\ lastCall.input.Acknowledgement.error # <<>>
    /\ CounterOf(store[lastCall.actor], "confBalls") = 1

\* C7: when the timeout of a sent packet fires, OnIBCPacketTimeout returns
\* and has changed the contract's store.
C7_TimeoutHandled ==
    lastCall.op = "timeout"
        => /\ ~lastCall.panic
           /\ lastCall.err = <<>>
           /\ store[lastCall.actor] # lastCall.pre

\* C8: the stored endpoint list holds at most one pair per local channel id.
C8_NoDuplicatePairs ==
    \A a \in Actors :
        \A i, j \in 1..Len(Counterparties(store[a])) :
            i # j => Counterparties(store[a])[i].Our.Channel
                        # Counterparties(store[a])[j].Our.Channel

\* C9: an OnIBCPacketReceive of a payload that does not parse returns no
\* error, an acknowledgement with an error and no success, and no message;
\* it leaves the store as it was and the channel open.
C9_FailsSoft ==
    (lastCall.op = "receive" /\ Malformed(lastCall.input.Data))
        => /\ lastCall.err = <<>>
           /\ ~lastCall.panic
           /\ Len(lastCall.resp) = 1
           /\ Len(lastCall.resp[1].Acknowledgement) = 1
           /\ lastCall.resp[1].Acknowledgement[1].error # <<>>
           /\ lastCall.resp[1].Acknowledgement[1].success = <<>>
           /\ lastCall.resp[1].Messages = <<>>
           /\ store[lastCall.actor] = lastCall.pre
           /\ chanState[lastCall.actor][lastCall.input.Destination.Channel] = "OPEN"

\* a payload that is not JSON was received by a player that had sent a ball
C9_Witness ==
    /\ lastCall.op = "receive"
    /\ lastCall.input.Data.kind = "garbage"
    /\ CounterOf(lastCall.pre, "sentBalls") = 1
    /\ store[lastCall.actor] = lastCall.pre

\* the value a received payload carries for the receiving actor
ReceivedValue(actor, data) == HitAt(UnmarshalHit(data).hit, counterParty(actor))

\* C10: with a max value stored, an OnIBCPacketReceive of a well-formed
\* payload whose value is greater returns an acknowledgement with an error
\* and no message, and leaves sentBalls and lastBallSent as they were.
C10_MaxValueExceeded ==
    (/\ lastCall.op = "receive"
     /\ ~Malformed(lastCall.input.Data)
     /\ lastCall.pre.maxValue # <<>>
     /\ UGt(ReceivedValue(lastCall.actor, lastCall.input.Data),
            BigEndianToUint64(lastCall.pre.maxValue)))
        => /\ lastCall.err = <<>>
           /\ Len(lastCall.resp) = 1
           /\ Len(lastCall.resp[1].Acknowledgement) = 1
           /\ lastCall.resp[1].Acknowledgement[1].error # <<>>
           /\ lastCall.resp[1].Messages = <<>>
           /\ store[lastCall.actor].sentBalls = lastCall.pre.sentBalls
           /\ store[lastCall.actor].lastBallSent = lastCall.pre.lastBallSent

\* a value above the stored max value of 50 was received
C10_Witness ==
    /\ lastCall.op = "receive"
    /\ ~Malformed(lastCall.input.Data)
    /\ lastCall.pre.maxValue = Uint64ToBigEndian(50)
    /\ UGt(ReceivedValue(lastCall.actor, lastCall.input.Data), 50)
    /\ CounterOf(store[lastCall.actor], "recvBalls") = 1

-----------------------------------------------------------------------------
(* The game between the two players                                        *)

\* ping started one game with the value 100 and pong none; ping's packet
\* {"ping": 100} was received and acknowledged, pong's reply {"pong": 1} was
\* received by ping, and nothing ping sent since has been delivered
ScenarioADone ==
    /\ Len(packets) >= 2
    /\ execCalls[pong] = 0
    /\ execCalls[ping] \in {2, 3}
    /\ packets[1].from = ping
    /\ packets[1].packet.Data = HitBytes(NewHit(ping, 100))
    /\ packets[1].status = "ACKNOWLEDGED"
    /\ packets[2].from = pong
    /\ packets[2].ack # <<>>
    /\ \A n \in 3..Len(packets) : packets[n].status = "SENT" /\ packets[n].ack = <<>>

-----------------------------------------------------------------------------
(* The gas register                                                        *)

\* source * multiplier, exact
ExactProduct(source, multiplier) ==
    IntMul(NewIntFromUint64(source), NewIntFromUint64(multiplier))

\* max(0, bytes - freeTierBytes) * eventAttrCost + count * eventAttrCountCost,
\* exact
ExactEventCost(g, evts) ==
    LET bytes == StoredBytes(evts)
        billable == IF bytes - g.eventAttributeDataFreeTier > 0
                    THEN bytes - g.eventAttributeDataFreeTier ELSE 0
    IN  IntAdd(ExactProduct(FromNat(billable), g.eventAttributeDataCost),
               ExactProduct(FromNat(Len(evts)), g.eventPerAttributeCost))

\* C12: FromWasmVMGas(ToWasmVMGas(g)) returns g, for every g and every
\* multiplier of the register for which g * multiplier is below 2^64.
C12_RoundTrip ==
    (/\ gasRet.op = "FromWasmVMGas"
     /\ gasRet.of # <<>>
     /\ IsUint64(ExactProduct(gasRet.of[1], register.gasMultiplier)))
        => /\ ~gasRet.panic
           /\ gasRet.ret = gasRet.of[1]

\* C13: a FromWasmVMGas(v) that returns q has q * multiplier <= v and
\* v - q * multiplier < multiplier.
C13_Floors ==
    (gasRet.op = "FromWasmVMGas" /\ ~gasRet.panic)
        => LET v == NewIntFromUint64(gasRet.source)
               back == ExactProduct(gasRet.ret, register.gasMultiplier)
           IN  /\ ~IntLess(v, back)
               /\ IntLess(IntSub(v, back), NewIntFromUint64(register.gasMultiplier))

\* a VM gas amount that is no multiple of the multiplier was converted
C13_Witness ==
    /\ gasRet.op = "FromWasmVMGas"
    /\ ~gasRet.panic
    /\ gasRet.source = LowOnes(64)
    /\ register.gasMultiplier = FromNat(DefaultGasMultiplier)
    /\ ExactProduct(gasRet.ret, register.gasMultiplier) # NewIntFromUint64(gasRet.source)

\* C14: EventCosts panics whenever the exact cost is 2^64 or more, and
\* whenever it returns, it returns the exact cost.
C14_NoSilentWrap ==
    gasRet.op = "EventCosts"
        => IF IsUint64(ExactEventCost(register, gasRet.evts))
           THEN /\ ~gasRet.panic
                /\ NewIntFromUint64(gasRet.ret) = ExactEventCost(register, gasRet.evts)
           ELSE gasRet.panic

\* EventCosts has panicked on a cost of 2^64 or more
C14_Witness ==
    /\ gasRet.op = "EventCosts"
    /\ gasRet.panic
    /\ ~IsUint64(ExactEventCost(register, gasRet.evts))

\* C15: ToWasmVMGas(g) is the exact product g * multiplier for every uint64
\* g, never that product modulo 2^64.
C15_ExactToVM ==
    gasRet.op = "ToWasmVMGas"
        => NewIntFromUint64(gasRet.ret)
               = ExactProduct(gasRet.source, register.gasMultiplier)

\* C16: an EventCosts that returns, returns max(0, bytes - freeTierBytes) *
\* eventAttrCost + count * eventAttrCountCost; with bytes <= freeTierBytes
\* that is count * eventAttrCountCost.
C16_EventCostFormula ==
    (gasRet.op = "EventCosts" /\ ~gasRet.panic)
        => /\ NewIntFromUint64(gasRet.ret) = ExactEventCost(register, gasRet.evts)
           /\ StoredBytes(gasRet.evts) <= register.eventAttributeDataFreeTier
                => NewIntFromUint64(gasRet.ret)
                       = ExactProduct(FromNat(Len(gasRet.evts)),
                                      register.eventPerAttributeCost)

\* two attributes within the free tier were priced at 2 * 10 although a
\* byte costs something
C16_Witness ==
    /\ gasRet.op = "EventCosts"
    /\ ~gasRet.panic
    /\ Len(gasRet.evts) = 2
    /\ StoredBytes(gasRet.evts) = register.eventAttributeDataFreeTier
    /\ register.eventAttributeDataCost # FromNat(0)
    /\ gasRet.ret = FromNat(2 * DefaultPerAttributeCost)

\* C17: when EventCosts returns for a list B, it returns at least what it
\* returns for any list A with no more attributes and no more bytes.
C17_Monotone ==
    (gasRet.op = "EventCosts" /\ ~gasRet.panic)
        => \A a \in EventLists :
              (/\ Len(a) <= Len(gasRet.evts)
               /\ StoredBytes(a) <= StoredBytes(gasRet.evts)
               /\ ~EventCosts(register, a).panic)
                  => ~IntLess(NewIntFromUint64(gasRet.ret),
                              NewIntFromUint64(EventCosts(register, a).ret))

\* a list was priced above a list with fewer attributes and fewer bytes
C17_Witness ==
    /\ gasRet.op = "EventCosts"
    /\ ~gasRet.panic
    /\ Len(gasRet.evts) = 2
    /\ \E a \in EventLists :
          /\ Len(a) = 1
          /\ StoredBytes(a) < StoredBytes(gasRet.evts)
          /\ IntLess(NewIntFromUint64(EventCosts(register, a).ret),
                     NewIntFromUint64(gasRet.ret))

-----------------------------------------------------------------------------
(* The resolver and the injectivity of the derivation                      *)

\* C18: ContractFromPortID of a string that does not start with "wasm"
\* fails with types.ErrInvalid and returns no contract.
C18_PrefixRequired ==
    (resolved # NoResult /\ ~HasPrefix(portID, portIDPrefix))
        => /\ ~resolved.ok
           /\ IsErrInvalid(resolved)
           /\ resolved.err = "without prefix"

\* "wasn" followed by a well-formed payload was rejected
C18_Witness ==
    /\ portID = <<119, 97, 115, 110>> \o EncodeToString(<<1>>)
    /\ resolved # NoResult
    /\ ~resolved.ok

\* C19: ContractFromPortID of a prefixed string whose payload is base64 text
\* fails with types.ErrInvalid when the bytes are no varint (no byte, no
\* last byte, or more than 64 bits), and otherwise returns value >> 32 and
\* value & 0xFFFFFFFF.
C19_VarintRequired ==
    \* the bytes behind the prefix of the resolved string
    LET PayloadOf(p) == DecodeString(SubSeq(p, Len(portIDPrefix) + 1, Len(p)))
    IN
    (resolved # NoResult /\ HasPrefix(portID, portIDPrefix) /\ ~PayloadOf(portID).err)
        => IF Uvarint(PayloadOf(portID).data).n <= 0
           THEN IsErrInvalid(resolved)
           ELSE /\ resolved.ok
                /\ resolved.codeID = Shr(Uvarint(PayloadOf(portID).data).x, 32)
                /\ resolved.instanceID
                       = BitAnd(Uvarint(PayloadOf(portID).data).x, LowOnes(32))

\* C20: no two distinct (codeID, instanceID) pairs have the same port id.
C20_Injective ==
    portID # NoString
        => \A c \in IdSet, i \in IdSet :
              (c # codeID \/ i # instanceID) => PortIDForContract(c, i) # portID

\* C21: whenever ContractFromPortID succeeds with (codeID, instanceID), the
\* resolved string is exactly PortIDForContract(codeID, instanceID); a
\* string with bytes behind the varint or a non-minimal varint is rejected.
C21_OnlyDerivedAccepted ==
    (resolved # NoResult /\ resolved.ok)
        => portID = PortIDForContract(resolved.codeID, resolved.instanceID)

\* C23: with a nil port keeper, ensureIbcPort returns
\* PortIDForContract(codeID, instanceID) and no error, bindIbcPort returns
\* no error, and after any number of calls no capability was created,
\* claimed or asked for.
C23_NilKeeperNoOp ==
    portKeeperNil
        => /\ boundPorts = {} /\ heldCaps = {} /\ claims = {}
           /\ \A p \in PortNames : ensureBinds[p] = 0 /\ bindOk[p] = 0
           /\ portRet.op = "ensure"
                 => /\ portRet.err = ""
                    /\ portRet.portID
                           = PortIDForContract(portRet.codeID, portRet.instanceID)
                    /\ ~portRet.asked /\ ~portRet.bind
           /\ portRet.op = "bind" => (portRet.err = "" /\ ~portRet.bind)

\* with a nil port keeper at least three calls were made, the last an
\* ensureIbcPort of a pair that was ensured before
C23_Witness ==
    /\ portKeeperNil
    /\ portCalls >= 3
    /\ portRet.op = "ensure"
    /\ portRet.prior = portRet.portID
    /\ portRet.err = ""

-----------------------------------------------------------------------------
(* Capability ownership among several modules                              *)

-----------------------------------------------------------------------------
(* The channel endpoint store                                              *)

\* C24: every step keeps the stored pairs of every contract as a prefix of
\* its new list of pairs (nothing is removed, changed or reordered), and a
\* step of OnIBCChannelConnect makes the new list the old one with the
\* channel's pair appended as last element.
C24_AppendOnly ==
    [][\A a \in Actors :
          LET old == Counterparties(store[a])
              new == Counterparties(store'[a])
              \* the pair storeEndpoint builds for a channel
              PairOf(channel) ==
                  [Our |-> channel.Endpoint, Their |-> channel.CounterpartyEndpoint]
          IN  /\ Len(new) >= Len(old)
              /\ SubSeq(new, 1, Len(old)) = old
              /\ (lastCall'.op = "connect" /\ lastCall'.actor = a)
                    => new = Append(old, PairOf(lastCall'.input))]_vars

\* the pair of a second channel was stored behind the pair of another channel
C24_Witness ==
    /\ lastCall.op = "connect"
    /\ Len(Counterparties(lastCall.pre)) = 1
    /\ Len(Counterparties(store[lastCall.actor])) = 2
    /\ Counterparties(store[lastCall.actor])[1].Our.Channel
           # Counterparties(store[lastCall.actor])[2].Our.Channel

\* C25: a step of Execute that starts a game on a channel (a deliverTx call
\* with a well-formed startGame) ends fatally, sends nothing and changes no
\* store exactly when no stored pair has that local channel; when it sends
\* a packet, the packet's source and destination are those of a stored
\* pair of that channel.
C25_LookupByLocalChannel ==
    [][(/\ lastCall'.op = "execute"
        /\ lastCall'.input.kind = "startGame"
        /\ execCalls'[lastCall'.actor] % 2 = 0)
       => LET \* the stored pairs of a store whose local channel is channelID
              PairsOfChannel(st, channelID) ==
                  {Counterparties(st)[n] :
                       n \in {k \in 1..Len(Counterparties(st)) :
                                  Counterparties(st)[k].Our.Channel = channelID}}
              hits == PairsOfChannel(store[lastCall'.actor], lastCall'.input.ChannelID)
          IN  /\ lastCall'.panic <=> (hits = {})
              /\ lastCall'.panic => (packets' = packets /\ store' = store)
              /\ packets' # packets
                    => /\ Len(packets') = Len(packets) + 1
                       /\ \E v \in hits :
                            LET p == packets'[Len(packets')].packet
                            IN  /\ p.SourcePort = v.Our.Port
                                /\ p.SourceChannel = v.Our.Channel
                                /\ p.DestPort = v.Their.Port
                                /\ p.DestChannel = v.Their.Channel]_vars

\* a game was started on the second channel of a player that had stored the
\* pair of the first channel before that of the second
C25_Witness ==
    /\ lastCall.op = "execute"
    /\ lastCall.committed
    /\ lastCall.input.kind = "startGame"
    /\ Len(Counterparties(lastCall.pre)) = 2
    /\ Counterparties(lastCall.pre)[1].Our.Channel # lastCall.input.ChannelID
    /\ Len(packets) > 0
    /\ packets[Len(packets)].packet.SourceChannel = lastCall.input.ChannelID

\* C26: a step of OnIBCChannelOpen accepts the channel exactly when the
\* proposed version is the actor's own role string; a rejection carries a
\* reason that names the expected and the proposed version; the step
\* returns no error and changes no store, counter or packet.
C26_OpenIffOwnVersion ==
    [][lastCall'.op = "open"
       => /\ lastCall'.resp[1].Success <=> (lastCall'.input.Version = lastCall'.actor)
          /\ ~lastCall'.resp[1].Success
                => /\ \E n \in DOMAIN lastCall'.resp[1].Reason :
                          lastCall'.resp[1].Reason[n] = lastCall'.actor
                   /\ \E n \in DOMAIN lastCall'.resp[1].Reason :
                          lastCall'.resp[1].Reason[n] = lastCall'.input.Version
          /\ lastCall'.err = <<>> /\ ~lastCall'.panic
          /\ store' = store /\ execCalls' = execCalls /\ packets' = packets]_vars

\* the ping player rejected a channel proposed with version "Ping"
C26_Witness ==
    /\ lastCall.op = "open"
    /\ lastCall.actor = ping
    /\ lastCall.input.Version = "Ping"
    /\ ~lastCall.resp[1].Success
    /\ chanState[ping][lastCall.input.Endpoint.Channel] = "UNINITIALIZED"

-----------------------------------------------------------------------------
(* The prices of instantiation, compilation and replies                    *)

\* C27: InstantiateContractCost and NewContractInstanceCost return 0 for
\* pinned code and the register's instanceCost otherwise, whatever the
\* message length and the label length.
C27_InstantiateCost ==
    gasRet.op \in {"InstantiateContractCost", "NewContractInstanceCost"}
        => /\ ~gasRet.panic
           /\ gasRet.ret = IF gasRet.args.pinned THEN FromNat(0)
                           ELSE register.instanceCost

\* NewContractInstanceCost priced unpinned code with a message and a label
\* of the greatest length
C27_Witness ==
    /\ gasRet.op = "NewContractInstanceCost"
    /\ ~gasRet.args.pinned
    /\ gasRet.args.msgLen = MaxLen
    /\ gasRet.args.labelLength = MaxLen
    /\ gasRet.ret = FromNat(DefaultInstanceCost)

\* C28: CompileCost returns exactly compileCost * byteLength, whatever the
\* URL length and the builder length, and never less than for a shorter code.
C28_CompileCost ==
    gasRet.op = "CompileCost"
        => /\ ~gasRet.panic
           /\ NewIntFromUint64(gasRet.ret)
                  = IntMul(NewIntFromUint64(register.compileCost),
                           NewIntFromUint64(FromNat(gasRet.args.byteLength)))
           /\ \A n \in CodeLengths :
                 n <= gasRet.args.byteLength
                     => ~IntLess(NewIntFromUint64(gasRet.ret),
                                 NewIntFromUint64(CompileCost(register, n, 0, 0).ret))

\* C29: a ReplyCost that returns gives the sum of EventCosts over the events
\* of a successful result plus InstantiateContractCost, gives
\* InstantiateContractCost alone for an error result, and never gives less
\* than the EventCosts of one of the events.
C29_ReplyCost ==
    \* the exact sum of EventCosts over the events, as a wide integer
    LET RECURSIVE ExactEventSum(_, _)
        ExactEventSum(g, events) ==
            IF Len(events) = 0 THEN NewIntFromUint64(FromNat(0))
            ELSE IntAdd(NewIntFromUint64(EventCosts(g, events[1].Attributes).ret),
                        ExactEventSum(g, Tail(events)))
    IN
    \* the events of a reply: none for an error result
    LET EventsOf(reply) == IF reply.Result.Ok = <<>> THEN <<>> ELSE reply.Result.Ok[1].Events
    IN
    (gasRet.op = "ReplyCost" /\ ~gasRet.panic)
        => LET events == EventsOf(gasRet.args.reply)
               inst == InstantiateContractCost(register, gasRet.args.pinned, 0).ret
           IN  /\ NewIntFromUint64(gasRet.ret)
                      = IntAdd(ExactEventSum(register, events), NewIntFromUint64(inst))
               /\ gasRet.args.reply.Result.Ok = <<>> => gasRet.ret = inst
               /\ \A n \in 1..Len(events) :
                     ~IntLess(NewIntFromUint64(gasRet.ret),
                              NewIntFromUint64(
                                  EventCosts(register, events[n].Attributes).ret))

-----------------------------------------------------------------------------
(* The sub-message dispatch pipeline                                       *)

\* the log entries of the messages of the dispatched list itself
TopLevel(log) == SelectSeq(log, LAMBDA e : e.depth = 0)

\* C30: a dispatch handles the messages of its list in order, each on the
\* ledger the one before left; when a message fails, no later message of
\* the list is handled and the dispatch returns that message's error to the
\* invocation; without a failure every message of the list is handled.
C30_PipelineInOrder ==
    pipeRet.op = "dispatch"
        => LET top == TopLevel(pipeRet.log) IN
           /\ Len(top) <= Len(pipeRet.msgs)
           /\ \A k \in 1..Len(top) :
                 /\ top[k].msg = pipeRet.msgs[k]
                 /\ top[k].seen = IF k = 1 THEN pipeRet.pre ELSE top[k-1].after
                 /\ k < Len(top) => top[k].err = ""
           /\ pipeRet.err = ""
                 => /\ Len(top) = Len(pipeRet.msgs)
                    /\ \A k \in 1..Len(top) : top[k].err = ""
           /\ pipeRet.err # ""
                 => /\ Len(top) >= 1
                    /\ top[Len(top)].err = pipeRet.err

\* of three messages the first spent the balance, the second failed for
\* the lack of it, and the third was not handled
C30_Witness ==
    /\ pipeRet.op = "dispatch"
    /\ pipeRet.msgs = <<BankMsg(1), BankMsg(1), IbcMsg>>
    /\ pipeRet.pre.balance = 1
    /\ pipeRet.pre.channelOpen
    /\ pipeRet.err = "insufficient funds"
    /\ Len(TopLevel(pipeRet.log)) = 2
    /\ TopLevel(pipeRet.log)[2].seen.balance = 0
    /\ pipeRet.after.sent = 0

-----------------------------------------------------------------------------
(* The counters of a game of several rounds                                *)

\* C31: in a game that ping started with the value v and no max value, and
\* that pong did not start, once n rounds are complete (the packets 1..2n,
\* ping's odd and pong's even ones, are received and acknowledged, and
\* ping's packet 2n+1 is not yet delivered) ping holds sentBalls n+1,
\* recvBalls n, confBalls n, lastBallSent v+n and lastBallReceived n, and
\* pong holds sentBalls n, recvBalls n, confBalls n, lastBallSent n and
\* lastBallReceived v+n-1 (nothing for n = 0).
C31_RoundCounters ==
    \A n \in 0..(MaxRelayed \div 2) :
        (/\ Len(packets) = 2 * n + 1
         /\ execCalls[pong] = 0
         /\ store[ping].maxValue = <<>>
         /\ \A k \in 1..(2 * n) : packets[k].status = "ACKNOWLEDGED"
         /\ \A k \in 1..(2 * n + 1) :
               packets[k].from = IF k % 2 = 1 THEN ping ELSE pong
         /\ packets[2 * n + 1].status = "SENT"
         /\ packets[2 * n + 1].ack = <<>>)
        => LET v == ReceivedValue(pong, packets[1].packet.Data) IN
           /\ CounterOf(store[ping], "sentBalls") = n + 1
           /\ CounterOf(store[ping], "recvBalls") = n
           /\ CounterOf(store[ping], "confBalls") = n
           /\ CounterOf(store[ping], "lastBallSent") = v + n
           /\ CounterOf(store[ping], "lastBallReceived") = n
           /\ CounterOf(store[pong], "sentBalls") = n
           /\ CounterOf(store[pong], "recvBalls") = n
           /\ CounterOf(store[pong], "confBalls") = n
           /\ CounterOf(store[pong], "lastBallSent") = n
           /\ CounterOf(store[pong], "lastBallReceived") = IF n = 0 THEN 0 ELSE v + n - 1

\* two rounds of a game started with 100 are complete
C31_Witness ==
    /\ Len(packets) = 5
    /\ execCalls[pong] = 0
    /\ store[ping].maxValue = <<>>
    /\ \A k \in 1..4 : packets[k].status = "ACKNOWLEDGED"
    /\ packets[5].status = "SENT" /\ packets[5].ack = <<>>
    /\ CounterOf(store[ping], "lastBallSent") = 102
    /\ CounterOf(store[pong], "lastBallReceived") = 101

-----------------------------------------------------------------------------
(* The channel handshake and the stored endpoints                          *)

\* C33: in every reachable state a contract holds a stored pair for a
\* channel only if the connect confirmation ran for it (the channel end is
\* OPEN), so a channel that is UNINITIALIZED, its open rejected or not yet
\* proposed, or OPEN_PENDING has no stored pair; and a step of
\* OnIBCChannelOpen leaves every store as it was.
C33_PairOnlyByConnect ==
    /\ [](\A a \in Actors, ch \in ChannelIds :
            (\E n \in DOMAIN Counterparties(store[a]) :
                 Counterparties(store[a])[n].Our.Channel = ch)
                => chanState[a][ch] = "OPEN")
    /\ [][lastCall'.op = "open" => store' = store]_vars

\* the connect confirmation stored the first pair of a player whose accepted
\* open proposal had stored none
C33_Witness ==
    /\ lastCall.op = "connect"
    /\ Counterparties(lastCall.pre) = <<>>
    /\ Len(Counterparties(store[lastCall.actor])) = 1
    /\ chanState[lastCall.actor][lastCall.input.Endpoint.Channel] = "OPEN"

-----------------------------------------------------------------------------
(* The counters of one contract                                            *)

\* C34: in every reachable state every contract has confBalls <= sentBalls
\* (the transport acknowledges a sent packet at most once); and a step of
\* OnIBCPacketReceive whose packet parses, in a contract without a stored
\* max value, makes recvBalls, sentBalls and lastBallSent each one more
\* than before the call.
C34_CountersInStep ==
    /\ [](\A a \in Actors :
            CounterOf(store[a], "confBalls") <= CounterOf(store[a], "sentBalls"))
    /\ [][(/\ lastCall'.op = "receive"
           /\ ~Malformed(lastCall'.input.Data)
           /\ lastCall'.pre.maxValue = <<>>)
          => LET a == lastCall'.actor IN
             /\ lastCall'.committed
             /\ lastCall'.pre = store[a]
             /\ \A key \in {"recvBalls", "sentBalls", "lastBallSent"} :
                   CounterOf(store'[a], key) = CounterOf(store[a], key) + 1]_vars

\* a contract that had started a game and seen its packet acknowledged
\* received a packet that parsed and replied to it
C34_Witness ==
    /\ lastCall.op = "receive"
    /\ ~Malformed(lastCall.input.Data)
    /\ lastCall.pre.maxValue = <<>>
    /\ CounterOf(lastCall.pre, "sentBalls") = 1
    /\ CounterOf(store[lastCall.actor], "sentBalls") = 2
    /\ CounterOf(store[lastCall.actor], "confBalls") = 1
    /\ CounterOf(store[lastCall.actor], "recvBalls") = 1

-----------------------------------------------------------------------------
(* The keeper option WithCosts                                             *)

\* C35: after WithCosts(compile, instance, multiplier, attribute) the gas
\* register holds the given compileCost, instanceCost, gasMultiplier and
\* eventAttributeDataCost, its eventPerAttributeCost and
\* eventAttributeDataFreeTier are those of the keeper before, and the API
\* costs are the default costs times the multiplier (the uint64 product,
\* which is the exact product whenever that fits 64 bits); and no call of a
\* cost method changes the register or the API costs.
C35_WithCosts ==
    /\ [](gasRet.op = "WithCosts"
            => /\ register.compileCost = gasRet.args.compile
               /\ register.instanceCost = gasRet.args.instance
               /\ register.gasMultiplier = gasRet.args.multiplier
               /\ register.eventAttributeDataCost = gasRet.args.attribute
               /\ register.eventPerAttributeCost
                      = gasRet.args.keeper.eventPerAttributeCost
               /\ register.eventAttributeDataFreeTier
                      = gasRet.args.keeper.eventAttributeDataFreeTier
               /\ DOMAIN register = DOMAIN gasRet.args.keeper
               /\ \A f \in {"human", "canonical"} :
                     LET cost == IF f = "human" THEN apiCosts.costHumanize
                                 ELSE apiCosts.costCanonical
                         exact == ExactProduct(FromNat(apiDefaults[f]),
                                               gasRet.args.multiplier)
                     IN  /\ cost = Uint64(exact)
                         /\ IsUint64(exact) => NewIntFromUint64(cost) = exact)
    /\ [][gasRet'.op \notin {"none", "WithCosts"}
            => register' = register /\ apiCosts' = apiCosts]_vars

\* WithCosts(3, 7, 100, 5) on a keeper built with other costs: the API costs
\* become 500 and 400
C35_Witness ==
    /\ gasRet.op = "WithCosts"
    /\ gasRet.args.multiplier = FromNat(DefaultGasMultiplier)
    /\ gasRet.args.keeper.compileCost = Shl(FromNat(1), 63)
    /\ gasRet.args.keeper.eventPerAttributeCost = Shl(FromNat(1), 63)
    /\ register.compileCost = FromNat(3)
    /\ register.eventAttributeDataCost = FromNat(5)
    /\ apiDefaults.human = 5
    /\ apiCosts = WithApiCosts(FromNat(500), FromNat(400))

-----------------------------------------------------------------------------
(* Governance proposals                                                    *)

\* C36: for each of the five proposal types ValidateBasic returns an error
\* whenever the embedded WasmProposal is invalid (its title is blank after
\* trimming or longer than MaxTitleLength, or its description is empty or
\* longer than MaxDescriptionLength), and the error is the one of the
\* embedded proposal whatever the other fields are: the base check comes
\* before every type-specific check.
C36_BaseCheckFirst ==
    propRet.op = "ValidateBasic"
        => LET p == propRet.p
               blank == \A i \in DOMAIN p.Title : p.Title[i] \in {9, 10, 11, 12, 13, 32}
           IN  /\ p.type \in {"StoreCode", "InstantiateContract", "MigrateContract",
                              "UpdateAdmin", "ClearAdmin"}
               /\ (\/ blank
                   \/ Len(p.Title) > MaxTitleLength
                   \/ Len(p.Description) = 0
                   \/ Len(p.Description) > MaxDescriptionLength)
                      => /\ propRet.err # ""
                         /\ propRet.err =
                               IF blank THEN "proposal title cannot be blank"
                               ELSE IF Len(p.Title) > MaxTitleLength
                               THEN "proposal title is longer than max length"
                               ELSE IF Len(p.Description) = 0
                               THEN "proposal description cannot be blank"
                               ELSE "proposal description is longer than max length"

\* a ClearAdmin proposal with a title of two spaces and a malformed contract
\* address: the error is the one of the title
C36_Witness ==
    /\ propRet.op = "ValidateBasic"
    /\ propRet.p.type = "ClearAdmin"
    /\ propRet.p.Title = <<32, 32>>
    /\ propRet.p.Contract = "bad"
    /\ propRet.err = "proposal title cannot be blank"

====
